---- MODULE Spec2Model ----
(***************************************************************************)
(* Verification model of the google-reviews-scraper core:                  *)
(*   - date_converter.py : parse_relative_date / try_parse_date            *)
(*   - data_storage.py   : merge_review, JSONStorage, MongoDBStorage       *)
(*   - image_handler.py  : ImageHandler.download_all_images                *)
(*   - scraper.py        : the streaming loop of GoogleReviewsScraper      *)
(*                                                                         *)
(* Strings are modelled as sequences of tokens (words, path segments,      *)
(* script classes of characters): every operation the code applies to a    *)
(* string (regex search, split, startswith, len, join/splitlines) is       *)
(* computed on the token sequence.                                         *)
(***************************************************************************)
EXTENDS Integers, Sequences, FiniteSets, TLC

VARIABLES
    \* ---- date normalizer (SpecDate) ----
    date_str,      \* the date text handed to parse_relative_date
    hint,          \* the lang argument
    ref_now,       \* the reference time (day ordinal)
    parsed,        \* outcome of the call: none / value / raised
    reparsed,      \* a second call with the same arguments agreed? none / same / differs
    \* ---- record merger (SpecMerge) ----
    rec,           \* the stored document of one identity ({} = none stored yet)
    clock,         \* the wall clock (day ordinal), never goes backwards
    frag,          \* the fragment of the last merge_review call
    merge_exc,     \* how the last call ended: none / ok / KeyError / OverflowError
    merged_photos, \* history: photo URLs of every fragment merged so far
    merges,        \* number of merge_review calls so far
    \* ---- image enrichment (SpecEnrich) ----
    cfg,           \* store_local_paths, replace_urls, preserve_original_urls, max_workers
    reviews,       \* the record map handed to download_all_images (rewritten in place)
    net,           \* how the fetch of each URL ends
    files,         \* the image directory: the files present, whole or not
    epc,           \* ready / pool / returned / raised
    tasks,         \* download_tasks of the running pass
    tstate,        \* per task: queued / fetching / writing / done
    results,       \* per task: what download_image returned
    consumed,      \* number of results the main thread has taken
    url_to_filename,
    url_to_custom_url,
    passes,        \* number of completed passes
    outputs,       \* history: the record map returned by each pass
    fetch_log,     \* history: the fetches made, per pass
    \* ---- collection session (SpecSession) ----
    stop_on_match, \* the stop_on_match setting
    docs,          \* identity -> document
    seen,          \* the seen identities
    processed_ids, \* identities handled in this run
    idle,
    attempts,
    spc,           \* loop / scan / parse / raised / done / saved / finished / failed
    cards,         \* the cards of the current batch, in pane order
    fresh_cards,   \* positions of the cards the first loop kept
    pos,           \* position of the running for loop
    trace,         \* history: what happened to each card of the batch
    storage,       \* the use_mongodb and backup_to_json settings
    db,            \* the MongoDB collection: review_id -> document
    json_store,    \* the JSON file of the session: a list of documents
    ids_store,     \* the ids file of the session: its text
    persist,       \* how save_reviews, save_json_docs and save_seen ended
    merge_count,   \* history: identity -> number of merge_review calls in this run
    \* ---- local file store (SpecStore) ----
    jcfg,          \* the settings of the JSONStorage
    jdocs_in,      \* history: the record map as it was handed to save_json_docs
    jdocs,         \* the caller's record map
    json_file,     \* the JSON file: a list of documents
    jloaded,       \* what load_json_docs returned
    ids_in,        \* the SeenSet handed to save_seen
    ids_file,      \* the ids file: its text
    ids_loaded     \* what load_seen returned

dateVars == <<date_str, hint, ref_now, parsed, reparsed>>
mergeVars == <<rec, clock, frag, merge_exc, merged_photos, merges>>
enrichVars == <<cfg, reviews, net, files, epc, tasks, tstate, results, consumed,
                url_to_filename, url_to_custom_url, passes, outputs, fetch_log>>
finalVars == <<storage, db, json_store, ids_store, persist>>
sessionVars == <<stop_on_match, docs, seen, processed_ids, idle, attempts, spc, cards,
                 fresh_cards, pos, trace, finalVars, merge_count>>
storeVars == <<jcfg, jdocs_in, jdocs, json_file, jloaded, ids_in, ids_file, ids_loaded>>
vars == <<dateVars, mergeVars, enrichVars, sessionVars, storeVars>>

\* what the actions of one subsystem leave alone
notDate == <<mergeVars, enrichVars, sessionVars, storeVars>>
notMerge == <<dateVars, enrichVars, sessionVars, storeVars>>
notEnrich == <<dateVars, mergeVars, sessionVars, storeVars>>
notSession == <<dateVars, mergeVars, enrichVars, storeVars>>
notStore == <<dateVars, mergeVars, enrichVars, sessionVars>>

(***************************************************************************)
(* Generic helpers                                                         *)
(***************************************************************************)
Range(s) == {s[i] : i \in DOMAIN s}

Min(S) == CHOOSE x \in S : \A y \in S : x <= y

NoDup(s) == \A i, j \in DOMAIN s : i # j => s[i] # s[j]

(***************************************************************************)
(* DATE NORMALIZER  (src/modules/date_converter.py)                        *)
(*                                                                         *)
(* A date text is a sequence of tokens [w, n]: w is the word, n the value  *)
(* of a digit token (w = "#").  Timestamps are day ordinals.               *)
(***************************************************************************)
Word(w) == [w |-> w, n |-> 0]
Num(n)  == [w |-> "#", n |-> n]

\* Python's datetime: the smallest representable day, and timedelta's limit.
MinOrdinal == 1
MaxDeltaDays == 999999999

\* random.randint(1, 365)
RandomMin == 1
RandomMax == 365

\* the approximations of try_parse_date
DaysPerWeek  == 7
DaysPerMonth == 30
DaysPerYear  == 365

\* mutant: calendar-style month and year lengths
DeltaDaysCalendar(unit, num) ==
    CASE unit = "day"   -> num
      [] unit = "week"  -> DaysPerWeek * num
      [] unit = "month" -> 31 * num
      [] unit = "year"  -> 366 * num
      [] OTHER          -> 0

DeltaDays(unit, num) ==
    CASE unit = "day"   -> num
      [] unit = "week"  -> DaysPerWeek * num
      [] unit = "month" -> DaysPerMonth * num
      [] unit = "year"  -> DaysPerYear * num
      [] OTHER          -> 0

\* result = now - delta; result.isoformat(): OverflowError outside datetime's range
Unparsed == [kind |-> "unparsed", val |-> 0]
Raised   == [kind |-> "raised", val |-> 0]
Value(v) == [kind |-> "value", val |-> v]

SubtractDays(now, days) ==
    IF days > MaxDeltaDays \/ now - days < MinOrdinal THEN Raised
    ELSE Value(now - days)

\* ---- English: (?P<num>a|an|\d+)\s+(?P<unit>day|week|month|year)s?\s+ago, IGNORECASE
\* The num group is not anchored: it also matches the tail of a longer word.
EnNumMatch(tok) ==
    tok.w \in {"#", "a", "an", "A", "An", "yoga"}

EnNumOf(tok) == IF tok.w = "#" THEN tok.n ELSE 1

EnUnitOf(tok) ==
    CASE tok.w \in {"day", "days", "Days"}       -> "day"
      [] tok.w \in {"week", "weeks", "Weeks"}    -> "week"
      [] tok.w \in {"month", "months", "Months"} -> "month"
      [] tok.w \in {"year", "years", "Years"}    -> "year"
      [] OTHER -> "none"

EnAgo(tok) == tok.w \in {"ago", "Ago", "AGO"}

EnMatchAt(s, i) ==
    /\ i + 2 <= Len(s)
    /\ EnNumMatch(s[i])
    /\ EnUnitOf(s[i + 1]) # "none"
    /\ EnAgo(s[i + 2])

TryParseEn(s, now) ==
    LET hits == {i \in DOMAIN s : EnMatchAt(s, i)} IN
    IF hits = {} THEN Unparsed
    ELSE LET i == Min(hits) IN
         SubtractDays(now, DeltaDays(EnUnitOf(s[i + 1]), EnNumOf(s[i])))

\* ---- Hebrew (words transliterated): strip the "lifney" prefix, the dual
\* forms as whole text, else (?P<num>\d+|echad|achat)?\s*(?P<unit>...)
HeStrip(s) ==
    IF Len(s) > 0 /\ s[1].w = "lifney" THEN Tail(s) ELSE s

HeSpecial(tok) ==
    CASE tok.w = "chodshayim" -> <<2, "month">>
      [] tok.w = "shvuayim"   -> <<2, "week">>
      [] tok.w = "yomayim"    -> <<2, "day">>
      [] OTHER                -> <<0, "none">>

\* the unit alternation also matches inside a longer word (the dual forms
\* contain the singular unit)
HeUnitOf(tok) ==
    CASE tok.w \in {"yom", "yamim", "yomayim"}              -> "day"
      [] tok.w \in {"shavua", "shavuot", "shvuayim"}        -> "week"
      [] tok.w \in {"chodesh", "chodashim", "chodshayim"}   -> "month"
      [] tok.w \in {"shana", "shanim"}                      -> "year"
      [] OTHER -> "none"

HeNumMatch(tok) == tok.w \in {"#", "echad", "achat"}

\* int(num_str), ValueError -> 1
HeNumOf(tok) == IF tok.w = "#" THEN tok.n ELSE 1

HeMatchAt(s, i) ==
    \/ HeUnitOf(s[i]) # "none"
    \/ HeNumMatch(s[i]) /\ i + 1 <= Len(s) /\ HeUnitOf(s[i + 1]) # "none"

TryParseHe(s, now) ==
    LET text == HeStrip(s) IN
    IF Len(text) = 1 /\ HeSpecial(text[1])[2] # "none"
    THEN SubtractDays(now, DeltaDays(HeSpecial(text[1])[2], HeSpecial(text[1])[1]))
    ELSE LET hits == {i \in DOMAIN text : HeMatchAt(text, i)} IN
         IF hits = {} THEN Unparsed
         ELSE LET i == Min(hits) IN
              IF HeUnitOf(text[i]) # "none"
              THEN SubtractDays(now, DeltaDays(HeUnitOf(text[i]), 1))
              ELSE SubtractDays(now, DeltaDays(HeUnitOf(text[i + 1]), HeNumOf(text[i])))

\* ---- Thai: (?P<num>\d+)?\s*(?P<unit>wan|sapda|duean|pi)thi-laew
\* a unit token stands for the unit followed by the "ago" suffix
ThUnitOf(tok) ==
    CASE tok.w = "wan_thilaew"    -> "day"
      [] tok.w = "sapda_thilaew"  -> "week"
      [] tok.w = "duean_thilaew"  -> "month"
      [] tok.w = "pi_thilaew"     -> "year"
      [] OTHER -> "none"

ThMatchAt(s, i) ==
    \/ ThUnitOf(s[i]) # "none"
    \/ s[i].w = "#" /\ i + 1 <= Len(s) /\ ThUnitOf(s[i + 1]) # "none"

TryParseTh(s, now) ==
    LET hits == {i \in DOMAIN s : ThMatchAt(s, i)} IN
    IF hits = {} THEN Unparsed
    ELSE LET i == Min(hits) IN
         IF ThUnitOf(s[i]) # "none"
         THEN SubtractDays(now, DeltaDays(ThUnitOf(s[i]), 1))
         ELSE SubtractDays(now, DeltaDays(ThUnitOf(s[i + 1]), s[i].n))

\* lang.lower()
Lower(l) ==
    CASE l = "EN" -> "en"
      [] l = "HE" -> "he"
      [] OTHER -> l

try_parse_date(s, l, now) ==
    CASE Lower(l) = "en" -> TryParseEn(s, now)
      [] Lower(l) = "he" -> TryParseHe(s, now)
      [] Lower(l) = "th" -> TryParseTh(s, now)
      [] OTHER -> Unparsed

supported_langs == <<"en", "he", "th">>

\* the retry loop over supported_langs, from position i on
RECURSIVE TryOthers(_, _, _, _)
TryOthers(s, l, now, i) ==
    IF i > Len(supported_langs) THEN Unparsed
    ELSE IF supported_langs[i] # Lower(l) /\ try_parse_date(s, supported_langs[i], now) # Unparsed
         THEN try_parse_date(s, supported_langs[i], now)
         ELSE TryOthers(s, l, now, i + 1)

\* the random fallback of parse_relative_date
RandomFallback(now) ==
    {SubtractDays(now, d) : d \in RandomMin..RandomMax}

\* every outcome parse_relative_date can have: a set of one element on the
\* parse path, the fallback's range when no language matches
parse_relative_date(s, l, now) ==
    LET first == try_parse_date(s, l, now) IN
    IF first # Unparsed THEN {first}
    ELSE LET other == TryOthers(s, l, now, 1) IN
         IF other # Unparsed THEN {other}
         ELSE RandomFallback(now)


(***************************************************************************)
(* RECORD MERGER  (src/modules/data_storage.py, merge_review)              *)
(*                                                                         *)
(* A document is a function from field names to values (a Python dict);    *)
(* a text is a sequence of characters, a URL a sequence of tokens, each    *)
(* counting one character.                                                 *)
(***************************************************************************)
EmptyMap == [k \in {} |-> <<>>]

Has(r, k) == k \in DOMAIN r
Get(r, k, d) == IF k \in DOMAIN r THEN r[k] ELSE d
Put(r, k, v) == [x \in DOMAIN r \cup {k} |-> IF x = k THEN v ELSE r[x]]
Del(r, k) == [x \in DOMAIN r \ {k} |-> r[x]]

\* existing[new] = existing.pop(old), when old is present and new is not
Migrate(r, old, new) ==
    IF Has(r, old) /\ ~Has(r, new) THEN Put(Del(r, old), new, r[old]) ELSE r

RAW_LANG == "en"

\* utils.detect_lang: Hebrew characters first, then Thai, else English
HEB_CHARS  == {"alef", "bet", "tav"}
THAI_CHARS == {"ko", "kho"}

detect_lang(txt) ==
    IF \E i \in DOMAIN txt : txt[i] \in HEB_CHARS THEN "he"
    ELSE IF \E i \in DOMAIN txt : txt[i] \in THAI_CHARS THEN "th"
    ELSE "en"

\* an ISO-8601 string written by get_current_iso_date / isoformat
Iso(t) == [t |-> t, fmt |-> "iso"]

\* all orders list({...}) can produce for a set of at most three URLs
SeqsOf(S) ==
    {q \in UNION {[1..n -> S] : n \in {Cardinality(S)}} : Range(q) = S}

\* a new document that is not given the identity of the fragment
NewDocumentAnonymous(raw, t1, rd) ==
    [review_id |-> "",
     author |-> raw.author,
     rating |-> raw.rating,
     description |-> EmptyMap,
     likes |-> raw.likes,
     user_images |-> raw.photos,
     author_profile_url |-> raw.profile,
     profile_picture |-> raw.avatar,
     owner_responses |-> EmptyMap,
     created_date |-> Iso(t1),
     review_date |-> Iso(rd.val)]

\* the document a merge_review call creates when nothing is stored
NewDocument(raw, t1, rd) ==
    [review_id |-> raw.id,
     author |-> raw.author,
     rating |-> raw.rating,
     description |-> EmptyMap,
     likes |-> raw.likes,
     user_images |-> raw.photos,
     author_profile_url |-> raw.profile,
     profile_picture |-> raw.avatar,
     owner_responses |-> EmptyMap,
     created_date |-> Iso(t1),
     review_date |-> Iso(rd.val)]

\* lines 269-279: the field renames of older schemas
MigrateFields(e) ==
    Migrate(Migrate(Migrate(Migrate(e, "texts", "description"),
                            "photo_urls", "user_images"),
                    "profile_link", "author_profile_url"),
            "avatar_url", "profile_picture")

\* created_date is stamped on every merge
AddCreatedDateAlways(e, t1) == Put(e, "created_date", Iso(t1))

\* lines 282-283
AddCreatedDate(e, t1) ==
    IF Has(e, "created_date") THEN e ELSE Put(e, "created_date", Iso(t1))

\* mutant: review_date rewritten on every merge
SetReviewDateAlways(e, rd) == Put(e, "review_date", Iso(rd.val))

\* lines 285-286
SetReviewDate(e, rd) ==
    IF Has(e, "review_date") THEN e ELSE Put(e, "review_date", Iso(rd.val))

\* does this call evaluate parse_relative_date(raw.date, RAW_LANG)?
NeedsDateParse(existing) ==
    DOMAIN existing = {} \/ ~Has(existing, "review_date")

\* the text of the fragment becomes the whole description
SetDescriptionOnly(e, raw) ==
    IF raw.text # <<>>
    THEN Put(e, "description", [l \in {raw.lang} |-> raw.text])
    ELSE e

\* lines 292-293
SetDescription(e, raw) ==
    IF raw.text # <<>>
    THEN Put(e, "description", Put(e["description"], raw.lang, raw.text))
    ELSE e

\* lines 295-296: a missing or zero rating is no rating
SetRating(e, raw) ==
    IF Get(e, "rating", 0) = 0 THEN Put(e, "rating", raw.rating) ELSE e

\* mutant: the observed like count always replaces the stored one
SetLikesAlways(e, raw) == Put(e, "likes", raw.likes)

\* lines 298-299
SetLikes(e, raw) ==
    IF raw.likes > Get(e, "likes", 0) THEN Put(e, "likes", raw.likes) ELSE e

\* mutant: the observed URLs replace the stored ones
MergedImagesReplace(e, raw) == Range(raw.photos)

\* line 302: the union of the stored and the observed URLs
MergedImages(e, raw) ==
    Range(Get(e, "user_images", <<>>)) \cup Range(raw.photos)

\* lines 305-307
SetAvatar(e, raw) ==
    IF raw.avatar # <<>> /\ (Get(e, "profile_picture", <<>>) = <<>>
                             \/ Len(raw.avatar) > Len(Get(e, "profile_picture", <<>>)))
    THEN Put(e, "profile_picture", raw.avatar)
    ELSE e

\* the reply is filed under the language of the review
SetOwnerResponseReviewLang(e, raw) ==
    IF raw.owner_text # <<>>
    THEN Put(e, "owner_responses",
             Put(Get(e, "owner_responses", EmptyMap), raw.lang,
                 [text |-> raw.owner_text]))
    ELSE e

\* lines 309-314
SetOwnerResponse(e, raw) ==
    IF raw.owner_text # <<>>
    THEN Put(e, "owner_responses",
             Put(Get(e, "owner_responses", EmptyMap), detect_lang(raw.owner_text),
                 [text |-> raw.owner_text]))
    ELSE e

\* lines 292-319, on the document e that lines 252-290 produced
MergeFields(e, raw, imgs, t2) ==
    Put(SetOwnerResponse(
          SetAvatar(
            Put(SetLikes(SetRating(SetDescription(e, raw), raw), raw),
                "user_images", imgs),
            raw),
          raw),
        "last_modified_date", Iso(t2))

\* merge_review(existing, raw): the clock reads t1 <= t2, the outcome rd of
\* parse_relative_date when it is called, and the order imgs in which
\* list({...}) lists the images are the caller's.  The result is how the
\* call ends (exc) and the document as the call leaves it (doc): a call on a
\* stored document mutates it in place, also when it raises.
merge_review(existing, raw, t1, t2, rd, imgs) ==
    LET e0 == IF DOMAIN existing = {}
              THEN existing
              ELSE AddCreatedDate(MigrateFields(existing), t1)
    IN
    IF NeedsDateParse(existing) /\ rd.kind = "raised"
    THEN [exc |-> "OverflowError", doc |-> e0]
    ELSE
    LET e1 == IF DOMAIN existing = {}
              THEN NewDocument(raw, t1, rd)
              ELSE Del(SetReviewDate(e0, rd), "date")
    IN
    IF raw.text # <<>> /\ ~Has(e1, "description")
    THEN [exc |-> "KeyError", doc |-> e1]
    ELSE [exc |-> "ok", doc |-> MergeFields(e1, raw, imgs, t2)]

(***************************************************************************)
(* SpecDate: one call of parse_relative_date on a bounded set of texts,    *)
(* followed by a second call with the same arguments.                      *)
(***************************************************************************)
MaxNum == 3
Nums == 0..MaxNum

\* datetime(2025, 2, 5).toordinal(), the fixed reference time of the examples
RefNow == 739287

Units == {"day", "week", "month", "year"}

EnPlural   == [day |-> "days", week |-> "weeks", month |-> "months", year |-> "years"]
HeSingular == [day |-> "yom", week |-> "shavua", month |-> "chodesh", year |-> "shana"]
HePlural   == [day |-> "yamim", week |-> "shavuot", month |-> "chodashim", year |-> "shanim"]
HeDual     == [day |-> "yomayim", week |-> "shvuayim", month |-> "chodshayim"]
ThUnit     == [day |-> "wan_thilaew", week |-> "sapda_thilaew",
               month |-> "duean_thilaew", year |-> "pi_thilaew"]

\* the phrases of the relative-date grammar, each with the unit and count it states
GrammarCases ==
         {[text |-> <<Num(n), Word(EnPlural[u]), Word("ago")>>, unit |-> u, n |-> n] :
              n \in Nums, u \in Units}
    \cup {[text |-> <<Word(a), Word(u), Word("ago")>>, unit |-> u, n |-> 1] :
              a \in {"a", "an"}, u \in Units}
    \cup {[text |-> <<Word("lifney"), Num(n), Word(HePlural[u])>>, unit |-> u, n |-> n] :
              n \in Nums, u \in Units}
    \cup {[text |-> <<Word("lifney"), Word(HeSingular[u])>>, unit |-> u, n |-> 1] :
              u \in Units}
    \cup {[text |-> <<Word("lifney"), Word(HeDual[u])>>, unit |-> u, n |-> 2] :
              u \in DOMAIN HeDual}
    \cup {[text |-> <<Num(n), Word(ThUnit[u])>>, unit |-> u, n |-> n] :
              n \in Nums, u \in Units}

\* a count so large that now - delta leaves datetime's range
HugeTexts ==
    { <<Num(3000), Word("years"), Word("ago")>>,
      <<Word("lifney"), Num(3000), Word("shanim")>> }

\* texts outside the grammar: empty, an unsupported unit, an unsupported dual,
\* a word in no supported language, a unit buried in a longer text
OtherTexts ==
    { <<>>,
      <<Word("an"), Word("hour"), Word("ago")>>,
      <<Word("lifney"), Word("shnatayim")>>,
      <<Word("hier")>>,
      <<Word("yoga"), Word("Days"), Word("AGO")>>,
      <<Word("lifney"), Word("chodshayim"), Word("beerech")>>,
      <<Word("lifney"), Word("echad"), Word("yom")>> }

DateTexts == {c.text : c \in GrammarCases} \cup HugeTexts \cup OtherTexts

Hints == {"en", "he", "th", "und", "EN"}

NoCall == [kind |-> "none", val |-> 0]

DateInit ==
    /\ date_str \in DateTexts
    /\ hint \in Hints
    /\ ref_now = RefNow
    /\ parsed = NoCall
    /\ reparsed = "none"

DateIdle ==
    /\ date_str = <<>>
    /\ hint = "en"
    /\ ref_now = RefNow
    /\ parsed = NoCall
    /\ reparsed = "none"

\* parse_relative_date(date_str, lang, now)
ParseCall ==
    /\ parsed = NoCall
    /\ parsed' \in parse_relative_date(date_str, hint, ref_now)
    /\ UNCHANGED <<date_str, hint, ref_now, reparsed>>
    /\ UNCHANGED notDate

\* the same call once more
ParseAgain ==
    /\ parsed # NoCall
    /\ reparsed = "none"
    /\ \E r \in parse_relative_date(date_str, hint, ref_now) :
          reparsed' = IF r = parsed THEN "same" ELSE "differs"
    /\ UNCHANGED <<date_str, hint, ref_now, parsed>>
    /\ UNCHANGED notDate

DateNext == ParseCall \/ ParseAgain



(***************************************************************************)
(* SpecMerge: merge_review called repeatedly for one identity, starting    *)
(* from nothing or from a document persisted earlier.                      *)
(***************************************************************************)
MaxMerges == 2

\* URLs (token sequences)
Photo1  == <<"https:", "/", "/", "lh5.google", "/", "p", "/", "AIHoz", "A1", "=", "w300">>
Photo2  == <<"https:", "/", "/", "lh5.google", "/", "img", "/", "photo7">>
AvShort == <<"https:", "/", "/", "lh3.google", "/", "a", "/", "U1">>
AvLong  == AvShort \o <<"=", "s120">>
Profile1 == <<"https:", "/", "/", "maps.google", "/", "contrib", "/", "U1">>

\* texts (character sequences)
TextGreat  == <<"g", "!">>
TextMeule  == <<"alef", "bet">>
TextToda   == <<"tav">>
TextThanks == <<"t", "y">>

DateWeek  == <<Word("a"), Word("week"), Word("ago")>>
DateYears == <<Num(2), Word("years"), Word("ago")>>
DateHuge  == <<Num(3000), Word("years"), Word("ago")>>

\* RawReview(id): every other field at its dataclass default
DefaultFragment(id) ==
    [id |-> id, author |-> "", rating |-> 0, date |-> <<>>, lang |-> "und",
     text |-> <<>>, likes |-> 0, photos |-> <<>>, profile |-> <<>>,
     avatar |-> <<>>, owner_date |-> <<>>, owner_text |-> <<>>]

FragEn ==
    [DefaultFragment("r1") EXCEPT !.author = "Dana", !.rating = 5, !.date = DateWeek,
        !.lang = "en", !.text = TextGreat, !.avatar = AvShort, !.profile = Profile1]

\* the same observation before the rating was readable
FragEnNoRating == [FragEn EXCEPT !.rating = 0]

FragHe ==
    [DefaultFragment("r1") EXCEPT !.author = "Dana", !.rating = 4, !.date = DateYears,
        !.lang = "he", !.text = TextMeule, !.likes = 2, !.photos = <<Photo1>>,
        !.avatar = AvLong, !.owner_text = TextToda, !.owner_date = DateWeek]

FragPhotos ==
    [DefaultFragment("r1") EXCEPT !.author = "Dana", !.rating = 5, !.date = DateWeek,
        !.likes = 1, !.photos = <<Photo2, Photo1>>, !.owner_text = TextThanks]

FragHugeDate == [DefaultFragment("r1") EXCEPT !.date = DateHuge, !.text = TextGreat,
                                               !.lang = "en"]

Fragments ==
    {DefaultFragment("r1"), FragEn, FragEnNoRating, FragHe, FragPhotos, FragHugeDate}

\* documents persisted before this run
\* ... by an older schema: legacy field names, a raw "date", dated owner reply
LegacyDocument ==
    [review_id |-> "r1", author |-> "Dana", rating |-> 4,
     texts |-> [en |-> TextGreat], likes |-> 1, photo_urls |-> <<Photo1>>,
     profile_link |-> Profile1, avatar_url |-> AvShort,
     owner_responses |-> [he |-> [text |-> TextToda, date |-> DateWeek]],
     date |-> DateYears]

\* ... holding an identity and little else
BareDocument ==
    [review_id |-> "r1", author |-> "Dana",
     created_date |-> Iso(RefNow - 1), review_date |-> Iso(RefNow - 8)]

\* ... by the current schema, with a left-over legacy "date"
DatedDocument ==
    [review_id |-> "r1", author |-> "Dana", rating |-> 0,
     description |-> [en |-> TextGreat], likes |-> 0, user_images |-> <<>>,
     author_profile_url |-> Profile1, profile_picture |-> AvShort,
     owner_responses |-> EmptyMap,
     created_date |-> Iso(RefNow - 1), last_modified_date |-> Iso(RefNow - 1),
     review_date |-> Iso(RefNow - 8), date |-> DateWeek]

StoredDocuments == {EmptyMap, LegacyDocument, BareDocument, DatedDocument}

MergeInit ==
    /\ rec \in StoredDocuments
    /\ clock = RefNow
    /\ frag = DefaultFragment("r1")
    /\ merge_exc = "none"
    /\ merged_photos = {}
    /\ merges = 0

MergeIdle ==
    /\ rec = EmptyMap
    /\ clock = RefNow
    /\ frag = DefaultFragment("r1")
    /\ merge_exc = "none"
    /\ merged_photos = {}
    /\ merges = 0

\* docs[raw.id] = merge_review(docs.get(raw.id), raw); the clock reads t1 when
\* the call starts and may have advanced when the call stamps
\* last_modified_date
MergeCall ==
    /\ merges < MaxMerges
    /\ \E raw \in Fragments :
       \E t1 \in {clock} :
       \E t2 \in {t1, t1 + 1} :
       \E rd \in (IF NeedsDateParse(rec)
                  THEN parse_relative_date(raw.date, RAW_LANG, t1)
                  ELSE {NoCall}) :
       \E imgs \in SeqsOf(MergedImages(MigrateFields(rec), raw)) :
          LET r == merge_review(rec, raw, t1, t2, rd, imgs) IN
          /\ rec' = r.doc
          /\ merge_exc' = r.exc
          /\ frag' = raw
          /\ merged_photos' = IF r.exc = "ok"
                              THEN merged_photos \cup Range(raw.photos)
                              ELSE merged_photos
          /\ clock' = t2
          /\ merges' = merges + 1
    /\ UNCHANGED notMerge

MergeNext == MergeCall

(***************************************************************************)
(* IMAGE ENRICHMENT  (src/modules/image_handler.py)                        *)
(*                                                                         *)
(* A URL and a file name are token sequences; "/", "=", "?" and "#" are    *)
(* tokens of their own, so split('/'), the AIHoz regex, urlparse and       *)
(* startswith are computed on the tokens.                                  *)
(***************************************************************************)
custom_url_base == <<"https:", "/", "/", "mycustomurl.com">>
custom_url_profiles == <<"/", "profiles", "/">>
custom_url_reviews == <<"/", "reviews", "/">>

StartsWith(s, p) == Len(s) >= Len(p) /\ SubSeq(s, 1, Len(p)) = p

RECURSIVE RStripSlash(_)
RStripSlash(s) ==
    IF s # <<>> /\ s[Len(s)] = "/" THEN RStripSlash(SubSeq(s, 1, Len(s) - 1)) ELSE s

RECURSIVE LStripSlash(_)
LStripSlash(s) ==
    IF s # <<>> /\ s[1] = "/" THEN LStripSlash(Tail(s)) ELSE s

\* url.split('/')
RECURSIVE SplitSlash(_)
SplitSlash(s) ==
    LET idx == {i \in DOMAIN s : s[i] = "/"} IN
    IF idx = {} THEN <<s>>
    ELSE <<SubSeq(s, 1, Min(idx) - 1)>> \o SplitSlash(SubSeq(s, Min(idx) + 1, Len(s)))

is_not_custom_url(url) ==
    /\ url # <<>>
    /\ ~(custom_url_base # <<>> /\ StartsWith(url, custom_url_base))

\* re.search(r'AIHoz[^=]+=', url): the places (i, j) where a match starts and ends
AIHozMatches(url) ==
    {m \in (DOMAIN url) \X (DOMAIN url) :
        /\ url[m[1]] = "AIHoz"
        /\ m[2] >= m[1] + 2
        /\ url[m[2]] = "="
        /\ \A k \in (m[1] + 1)..(m[2] - 1) : url[k] # "="}

\* urlparse(url).path
UrlPath(url) ==
    LET rest == IF Len(url) >= 4 /\ url[2] = "/" /\ url[3] = "/"
                THEN SubSeq(url, 5, Len(url)) ELSE url
        cut == {i \in DOMAIN rest : rest[i] \in {"?", "#"}} IN
    IF cut = {} THEN rest ELSE SubSeq(rest, 1, Min(cut) - 1)

get_filename_from_url(url, is_profile) ==
    IF url = <<>> \/ ~is_not_custom_url(url) THEN <<>>
    ELSE LET parts == SplitSlash(url)
             n == Len(parts) IN
         IF is_profile /\ n > 1
         THEN (IF parts[n] \in {<<>>, <<"w72-h72-p-rp-mo-ba4-br100">>}
               THEN parts[n - 1] ELSE parts[n]) \o <<".jpg">>
         ELSE IF AIHozMatches(url) # {}
         THEN LET i == Min({m[1] : m \in AIHozMatches(url)})
                  j == Min({m[2] : m \in {x \in AIHozMatches(url) : x[1] = i}}) IN
              SubSeq(url, i, j - 1) \o <<"w600-h450-p.jpg">>
         ELSE LET segs == SplitSlash(UrlPath(url))
                  filename == segs[Len(segs)] IN
              IF filename # <<>> /\ filename[Len(filename)] \in {".jpg", ".JPG"}
              THEN filename ELSE filename \o <<".jpg">>

get_custom_url(c, filename, is_profile) ==
    IF ~c.replace_urls \/ filename = <<>> THEN <<>>
    ELSE RStripSlash(custom_url_base) \o <<"/">>
         \o LStripSlash(RStripSlash(IF is_profile THEN custom_url_profiles
                                                  ELSE custom_url_reviews))
         \o <<"/">> \o filename

\* where download_image writes the file of a task
TargetPath(task) ==
    [dir |-> IF task.is_profile THEN "profiles" ELSE "reviews",
     name |-> get_filename_from_url(task.url, task.is_profile)]

Exists(fs, path) == \E f \in fs : f.path = path

\* open(filepath, 'wb'): the file is created, or truncated, and is incomplete
OpenForWrite(fs, path) ==
    {f \in fs : f.path # path} \cup {[path |-> path, whole |-> FALSE]}

\* the last chunk is written and the file closed
CloseWritten(fs, path) ==
    {f \in fs : f.path # path} \cup {[path |-> path, whole |-> TRUE]}

\* what download_image returns: (url, filename, custom_url); raised = the call
\* ended with an exception instead of returning
Downloaded(c, task) ==
    [url |-> task.url,
     filename |-> get_filename_from_url(task.url, task.is_profile),
     custom_url |-> get_custom_url(c, get_filename_from_url(task.url, task.is_profile),
                                   task.is_profile),
     raised |-> FALSE]

\* lines 112-113 and 117-118: nothing to fetch
Skipped(c, task) ==
    [url |-> task.url, filename |-> <<>>, custom_url |-> <<>>, raised |-> FALSE]

FetchFailedRaises(c, task) ==
    [url |-> task.url, filename |-> <<>>, custom_url |-> <<>>, raised |-> TRUE]

\* lines 142-144: except Exception: log, return url, "", ""
FetchFailed(c, task) ==
    [url |-> task.url, filename |-> <<>>, custom_url |-> <<>>, raised |-> FALSE]

NoResult == [url |-> <<>>, filename |-> <<>>, custom_url |-> <<>>, raised |-> FALSE]

\* lines 163-184: the URLs to fetch
review_urls(revs) ==
    UNION {IF Has(revs[id], "user_images")
           THEN {u \in Range(revs[id]["user_images"]) : is_not_custom_url(u)}
                \cup (IF Has(revs[id], "original_image_urls")
                      THEN {u \in Range(revs[id]["original_image_urls"]) :
                               is_not_custom_url(u)}
                      ELSE {})
           ELSE {} : id \in DOMAIN revs}

profile_urls(revs) ==
    UNION {IF Get(revs[id], "profile_picture", <<>>) # <<>>
           THEN {u \in {revs[id]["profile_picture"]} : is_not_custom_url(u)}
                \cup {u \in {Get(revs[id], "original_profile_picture", <<>>)} :
                         is_not_custom_url(u)}
           ELSE {} : id \in DOMAIN revs}

\* line 187: review images first, then profile pictures, each in set order
download_tasks(revs) ==
    {[i \in 1..(Len(a) + Len(b)) |->
         IF i <= Len(a) THEN [url |-> a[i], is_profile |-> FALSE]
         ELSE [url |-> b[i - Len(a)], is_profile |-> TRUE]] :
     a \in SeqsOf(review_urls(revs)), b \in SeqsOf(profile_urls(revs))}

\* lines 216-219
UserImagesOriginal(review) ==
    IF Has(review, "original_image_urls") THEN review["original_image_urls"]
    ELSE Get(review, "user_images", <<>>)

\* lines 222-225
ProfilePictureOriginal(review) ==
    IF Get(review, "original_profile_picture", <<>>) # <<>>
    THEN review["original_profile_picture"]
    ELSE Get(review, "profile_picture", <<>>)

\* lines 230-233
LocalImages(review, u2f) ==
    LET urls == SelectSeq(UserImagesOriginal(review),
                          LAMBDA u : u # <<>> /\ is_not_custom_url(u))
        local_images == [i \in DOMAIN urls |-> Get(u2f, urls[i], <<>>)] IN
    SelectSeq(local_images, LAMBDA img : img # <<>>)

\* lines 242-247
CustomImages(review, u2c) ==
    LET urls == SelectSeq(UserImagesOriginal(review),
                          LAMBDA u : Has(u2c, u) \/ ~is_not_custom_url(u)) IN
    [i \in DOMAIN urls |-> IF Has(u2c, urls[i]) THEN u2c[urls[i]] ELSE urls[i]]

\* lines 228-251
RewriteUserImages(c, review, u2f, u2c) ==
    IF ~Has(review, "user_images") THEN review
    ELSE LET r1 == IF c.store_local_paths
                   THEN Put(review, "local_images", LocalImages(review, u2f))
                   ELSE review
             r2 == IF c.replace_urls /\ c.preserve_original_urls
                      /\ ~Has(review, "original_image_urls")
                   THEN Put(r1, "original_image_urls", review["user_images"])
                   ELSE r1 IN
         IF c.replace_urls /\ CustomImages(review, u2c) # <<>>
         THEN Put(r2, "user_images", CustomImages(review, u2c))
         ELSE r2

\* lines 254-277; orig is the lookup key computed at lines 222-225
RewriteProfilePicture(c, review, orig, u2f, u2c) ==
    IF Get(review, "profile_picture", <<>>) = <<>> THEN review
    ELSE LET r1 == IF c.store_local_paths /\ Has(u2f, orig)
                   THEN Put(review, "local_profile_picture", u2f[orig])
                   ELSE review
             r2 == IF c.replace_urls /\ c.preserve_original_urls
                      /\ ~Has(review, "original_profile_picture")
                   THEN Put(r1, "original_profile_picture", review["profile_picture"])
                   ELSE r1 IN
         IF ~c.replace_urls THEN r2
         ELSE IF Has(u2c, orig) THEN Put(r2, "profile_picture", u2c[orig])
         ELSE IF ~is_not_custom_url(review["profile_picture"]) THEN r2
         ELSE IF orig # <<>> /\ Get(u2f, orig, <<>>) # <<>>
                 /\ get_custom_url(c, u2f[orig], TRUE) # <<>>
         THEN Put(r2, "profile_picture", get_custom_url(c, u2f[orig], TRUE))
         ELSE r2

\* lines 210-277 for one review
RewriteReview(c, review, u2f, u2c) ==
    RewriteProfilePicture(c, RewriteUserImages(c, review, u2f, u2c),
                          ProfilePictureOriginal(review), u2f, u2c)

(***************************************************************************)
(* SpecEnrich: download_all_images run repeatedly over one record map, on  *)
(* a pool of at most max_workers threads.                                  *)
(***************************************************************************)
MaxWorkers == 2
MaxPasses == 2

PhotoB == <<"https:", "/", "/", "lh5.google", "/", "img", "/", "photo8">>
\* Photo1 in another size: another URL, the same derived file name
Photo1Large == <<"https:", "/", "/", "lh5.google", "/", "p", "/", "AIHoz", "A1", "=", "w600">>

\* how the fetch of a URL ends, in every pass: the body arrives whole; the
\* request fails or times out; the stream breaks after the file was opened
Outcomes == {"ok", "fail", "broken"}

ImageConfigs ==
    [store_local_paths : BOOLEAN, replace_urls : BOOLEAN,
     preserve_original_urls : BOOLEAN, max_workers : 1..MaxWorkers]

RecordMaps ==
    { [r \in {"r1"} |->
          [review_id |-> "r1", user_images |-> <<Photo1, Photo2>>,
           profile_picture |-> AvLong]],
      [r \in {"r1", "r2"} |->
          IF r = "r1"
          THEN [review_id |-> "r1", user_images |-> <<Photo1>>, profile_picture |-> <<>>]
          ELSE [review_id |-> "r2", user_images |-> <<PhotoB, Photo1>>]],
      [r \in {"r1", "r2"} |->
          IF r = "r1"
          THEN [review_id |-> "r1", author |-> "Dana"]
          ELSE [review_id |-> "r2", user_images |-> <<>>, profile_picture |-> AvShort]],
      [r \in {"r1"} |->
          [review_id |-> "r1", user_images |-> <<Photo1, Photo1Large>>,
           profile_picture |-> Photo1]] }

UrlsOf(revs) == review_urls(revs) \cup profile_urls(revs)

EnrichInit ==
    /\ cfg \in ImageConfigs
    /\ reviews \in RecordMaps
    /\ net \in [UrlsOf(reviews) -> Outcomes]
    /\ files = {}
    /\ epc = "ready"
    /\ tasks = <<>>
    /\ tstate = <<>>
    /\ results = <<>>
    /\ consumed = 0
    /\ url_to_filename = EmptyMap
    /\ url_to_custom_url = EmptyMap
    /\ passes = 0
    /\ outputs = <<>>
    /\ fetch_log = {}

EnrichIdle ==
    /\ cfg = [store_local_paths |-> TRUE, replace_urls |-> FALSE,
              preserve_original_urls |-> TRUE, max_workers |-> 1]
    /\ reviews = EmptyMap
    /\ net = EmptyMap
    /\ files = {}
    /\ epc = "off"
    /\ tasks = <<>>
    /\ tstate = <<>>
    /\ results = <<>>
    /\ consumed = 0
    /\ url_to_filename = EmptyMap
    /\ url_to_custom_url = EmptyMap
    /\ passes = 0
    /\ outputs = <<>>
    /\ fetch_log = {}

InFlight == Cardinality({i \in DOMAIN tstate : tstate[i] \in {"fetching", "writing"}})

\* lines 156-198: collect the URLs; return at once when there is none
BeginPass ==
    /\ epc \in {"ready", "returned"}
    /\ passes < MaxPasses
    /\ \E ts \in download_tasks(reviews) :
          /\ tasks' = ts
          /\ tstate' = [i \in DOMAIN ts |-> "queued"]
          /\ results' = [i \in DOMAIN ts |-> NoResult]
          /\ IF ts = <<>>
             THEN /\ epc' = "returned"
                  /\ passes' = passes + 1
                  /\ outputs' = Append(outputs, reviews)
             ELSE /\ epc' = "pool"
                  /\ UNCHANGED <<passes, outputs>>
    /\ consumed' = 0
    /\ url_to_filename' = EmptyMap
    /\ url_to_custom_url' = EmptyMap
    /\ UNCHANGED <<cfg, reviews, net, files, fetch_log>>
    /\ UNCHANGED notEnrich

\* a pool that starts a thread for every task submitted
WorkerAlwaysFree == TRUE

\* line 201: ThreadPoolExecutor(max_workers) runs at most max_workers threads
WorkerFree == InFlight < cfg.max_workers

\* a free worker takes the next task: download_image up to line 128
StartTask(i) ==
    /\ epc = "pool"
    /\ tstate[i] = "queued"
    /\ \A j \in 1..(i - 1) : tstate[j] # "queued"
    /\ WorkerFree
    /\ IF ~is_not_custom_url(tasks[i].url) \/ TargetPath(tasks[i]).name = <<>>
       THEN /\ tstate' = [tstate EXCEPT ![i] = "done"]
            /\ results' = [results EXCEPT ![i] = Skipped(cfg, tasks[i])]
       ELSE IF Exists(files, TargetPath(tasks[i]))
       THEN /\ tstate' = [tstate EXCEPT ![i] = "done"]
            /\ results' = [results EXCEPT ![i] = Downloaded(cfg, tasks[i])]
       ELSE /\ tstate' = [tstate EXCEPT ![i] = "fetching"]
            /\ UNCHANGED results
    /\ UNCHANGED <<cfg, reviews, net, files, epc, tasks, consumed, url_to_filename,
                   url_to_custom_url, passes, outputs, fetch_log>>
    /\ UNCHANGED notEnrich

\* lines 131-134: requests.get, raise_for_status, open(filepath, 'wb')
Fetch(i) ==
    /\ epc = "pool"
    /\ tstate[i] = "fetching"
    /\ IF net[tasks[i].url] = "fail"
       THEN /\ tstate' = [tstate EXCEPT ![i] = "done"]
            /\ results' = [results EXCEPT ![i] = FetchFailed(cfg, tasks[i])]
            /\ fetch_log' = fetch_log \cup
                  {[pass |-> passes + 1, task |-> tasks[i], stored |-> FALSE]}
            /\ UNCHANGED files
       ELSE /\ tstate' = [tstate EXCEPT ![i] = "writing"]
            /\ files' = OpenForWrite(files, TargetPath(tasks[i]))
            /\ UNCHANGED <<results, fetch_log>>
    /\ UNCHANGED <<cfg, reviews, net, epc, tasks, consumed, url_to_filename,
                   url_to_custom_url, passes, outputs>>
    /\ UNCHANGED notEnrich

\* lines 135-140: the chunks are written; the stream may break on the way
Finish(i) ==
    /\ epc = "pool"
    /\ tstate[i] = "writing"
    /\ tstate' = [tstate EXCEPT ![i] = "done"]
    /\ IF net[tasks[i].url] = "ok"
       THEN /\ files' = CloseWritten(files, TargetPath(tasks[i]))
            /\ results' = [results EXCEPT ![i] = Downloaded(cfg, tasks[i])]
       ELSE /\ results' = [results EXCEPT ![i] = FetchFailed(cfg, tasks[i])]
            /\ UNCHANGED files
    /\ fetch_log' = fetch_log \cup
          {[pass |-> passes + 1, task |-> tasks[i], stored |-> net[tasks[i].url] = "ok"]}
    /\ UNCHANGED <<cfg, reviews, net, epc, tasks, consumed, url_to_filename,
                   url_to_custom_url, passes, outputs>>
    /\ UNCHANGED notEnrich

\* an iterator that hands out a result slot without waiting for its worker
ResultAlwaysReady(i) == TRUE

\* line 203: the iterator of executor.map blocks until the next task, in task
\* order, has returned
ResultReady(i) == tstate[i] = "done"

\* lines 203-207: the main thread takes the results in task order; a result
\* that is an exception is raised out of download_all_images
Consume ==
    /\ epc = "pool"
    /\ consumed < Len(tasks)
    /\ ResultReady(consumed + 1)
    /\ LET r == results[consumed + 1] IN
       IF r.raised
       THEN /\ epc' = "raised"
            /\ UNCHANGED <<url_to_filename, url_to_custom_url>>
       ELSE /\ url_to_filename' = IF r.filename # <<>>
                                  THEN Put(url_to_filename, r.url, r.filename)
                                  ELSE url_to_filename
            /\ url_to_custom_url' = IF r.custom_url # <<>>
                                    THEN Put(url_to_custom_url, r.url, r.custom_url)
                                    ELSE url_to_custom_url
            /\ UNCHANGED epc
    /\ consumed' = consumed + 1
    /\ UNCHANGED <<cfg, reviews, net, files, tasks, tstate, results, passes, outputs,
                   fetch_log>>
    /\ UNCHANGED notEnrich

\* lines 210-283: the pool is drained; every review is rewritten in place
Rewrite ==
    /\ epc = "pool"
    /\ consumed = Len(tasks)
    /\ reviews' = [id \in DOMAIN reviews |->
                      RewriteReview(cfg, reviews[id], url_to_filename, url_to_custom_url)]
    /\ epc' = "returned"
    /\ passes' = passes + 1
    /\ outputs' = Append(outputs, reviews')
    /\ UNCHANGED <<cfg, net, files, tasks, tstate, results, consumed, url_to_filename,
                   url_to_custom_url, fetch_log>>
    /\ UNCHANGED notEnrich

EnrichNext ==
    \/ BeginPass
    \/ \E i \in DOMAIN tasks : StartTask(i)
    \/ \E i \in DOMAIN tasks : Fetch(i)
    \/ \E i \in DOMAIN tasks : Finish(i)
    \/ Consume
    \/ Rewrite

(***************************************************************************)
(* COLLECTION SESSION  (src/modules/scraper.py, GoogleReviewsScraper.scrape)*)
(*                                                                         *)
(* A card is the identity its data-review-id attribute holds ("" = none).  *)
(* Reading a card can fail at any time (the element went stale, or the     *)
(* driver raised), so every read is a choice between its outcomes.         *)
(***************************************************************************)
max_attempts == 10
IdleLimit == 3
IdleStop == 999

\* RawReview.from_card(card) for the card of identity id
SessionFragment(id) ==
    CASE id = "r3" -> [FragEn EXCEPT !.id = "r3"]
      [] id = "r4" -> [FragHugeDate EXCEPT !.id = "r4"]
      [] OTHER     -> [DefaultFragment(id) EXCEPT !.date = DateWeek]

\* lines 1136-1138: RawReview(id=raw_id, text="", lang="und")
StubFragment(id) == DefaultFragment(id)

\* the outcomes of parse_relative_date a session explores: of the random
\* fallback the latest day only, and every other outcome
SessionDates(s, l, now) ==
    IF parse_relative_date(s, l, now) = RandomFallback(now)
    THEN {SubtractDays(now, RandomMin)}
    ELSE parse_relative_date(s, l, now)

\* a document this program stored in an earlier run
StoredDocument(id) ==
    merge_review(EmptyMap, SessionFragment(id), RefNow - 1, RefNow - 1,
                 Value(RefNow - 8), <<>>).doc

Pages ==
    { <<>>,
      <<"r3", "r1", "r4">>,
      <<"r4", "r3", "r1">>,
      <<"", "r3", "r3">> }

\* the files of the local store: absent, or holding data
NoFile == [exists |-> FALSE, data |-> <<>>]
File(data) == [exists |-> TRUE, data |-> data]

\* "\n".join(ids) for the identities in the order q
RECURSIVE JoinLines(_)
JoinLines(q) ==
    IF q = <<>> THEN <<>>
    ELSE (IF Head(q) = "" THEN <<>> ELSE <<Head(q)>>)
         \o (IF Len(q) > 1 THEN <<"\n">> \o JoinLines(Tail(q)) ELSE <<>>)

\* one order in which Python iterates a set or a dict of these keys
RECURSIVE OneOrder(_)
OneOrder(S) ==
    IF S = {} THEN <<>>
    ELSE LET x == CHOOSE y \in S : TRUE IN <<x>> \o OneOrder(S \ {x})

\* json.dumps(list(docs.values())): the documents of a map as a list
ListOf(m) == [i \in 1..Cardinality(DOMAIN m) |-> m[OneOrder(DOMAIN m)[i]]]

\* what save_reviews, save_json_docs and save_seen have done so far
NotPersisted == [mongodb |-> "none", json |-> "none", seen |-> "none", rejected |-> {}]

\* lines 166-169: the targets of the run, with what bootstrap loaded from them
SessionStores ==
    { [docs |-> EmptyMap, seen |-> {"r1", "r2"},
       use_mongodb |-> TRUE, backup_to_json |-> FALSE],
      [docs |-> [id \in {"r1", "r2"} |-> StoredDocument(id)], seen |-> {"r1", "r2"},
       use_mongodb |-> FALSE, backup_to_json |-> TRUE],
      [docs |-> [id \in {"r1", "r2"} |-> StoredDocument(id)], seen |-> {"r1", "r2"},
       use_mongodb |-> TRUE, backup_to_json |-> TRUE] }

SessionInit ==
    /\ stop_on_match \in BOOLEAN
    /\ \E st \in SessionStores :
          /\ docs = st.docs
          /\ seen = st.seen
          /\ storage = [use_mongodb |-> st.use_mongodb,
                        backup_to_json |-> st.backup_to_json]
          /\ db = IF st.use_mongodb THEN st.docs ELSE EmptyMap
          /\ json_store = IF st.backup_to_json THEN File(ListOf(st.docs)) ELSE NoFile
          /\ ids_store = File(JoinLines(OneOrder(st.seen)))
    /\ persist = NotPersisted
    /\ merge_count = EmptyMap
    /\ processed_ids = {}
    /\ idle = 0
    /\ attempts = 0
    /\ spc = "loop"
    /\ cards = <<>>
    /\ fresh_cards = <<>>
    /\ pos = 0
    /\ trace = <<>>

SessionIdle ==
    /\ stop_on_match = FALSE
    /\ docs = EmptyMap
    /\ seen = {}
    /\ storage = [use_mongodb |-> FALSE, backup_to_json |-> FALSE]
    /\ db = EmptyMap
    /\ json_store = NoFile
    /\ ids_store = NoFile
    /\ persist = NotPersisted
    /\ merge_count = EmptyMap
    /\ processed_ids = {}
    /\ idle = 0
    /\ attempts = 0
    /\ spc = "off"
    /\ cards = <<>>
    /\ fresh_cards = <<>>
    /\ pos = 0
    /\ trace = <<>>

\* line 1098: the while condition fails
LoopExit ==
    /\ spc = "loop"
    /\ attempts >= max_attempts
    /\ spc' = "done"
    /\ UNCHANGED <<stop_on_match, docs, seen, processed_ids, idle, attempts, cards,
                   fresh_cards, pos, trace>>
    /\ UNCHANGED <<finalVars, merge_count>>
    /\ UNCHANGED notSession

\* lines 1100-1110: find_elements returns the cards of the pane
PullBatch ==
    /\ spc = "loop"
    /\ attempts < max_attempts
    /\ \E page \in Pages :
          /\ cards' = page
          /\ trace' = [p \in DOMAIN page |-> "unread"]
          /\ IF Len(page) = 0
             THEN /\ attempts' = attempts + 1
                  /\ UNCHANGED spc
             ELSE /\ spc' = "scan"
                  /\ UNCHANGED attempts
    /\ fresh_cards' = <<>>
    /\ pos' = IF cards' = <<>> THEN 0 ELSE 1
    /\ UNCHANGED <<stop_on_match, docs, seen, processed_ids, idle>>
    /\ UNCHANGED <<finalVars, merge_count>>
    /\ UNCHANGED notSession

\* lines 1168-1180: find_elements raises; a stale pane is found again or the
\* loop is left, any other exception costs an attempt
PullFails ==
    /\ spc = "loop"
    /\ attempts < max_attempts
    /\ \E how \in {"stale_refound", "stale_lost", "error"} :
          /\ spc' = IF how = "stale_lost" THEN "done" ELSE "loop"
          /\ attempts' = IF how = "error" THEN attempts + 1 ELSE attempts
    /\ UNCHANGED <<stop_on_match, docs, seen, processed_ids, idle, cards, fresh_cards,
                   pos, trace>>
    /\ UNCHANGED <<finalVars, merge_count>>
    /\ UNCHANGED notSession

\* what the first loop does with a card whose identity reads cid
ScanStatus(cid) ==
    IF cid = "" THEN "no_id"
    ELSE IF cid \in seen THEN "seen"
    ELSE IF cid \in processed_ids THEN "processed"
    ELSE "fresh"

\* lines 1115-1117: the first loop breaks at this card
StopsScan(cid) ==
    stop_on_match /\ cid # "" /\ (cid \in seen \/ cid \in processed_ids)

\* lines 1112-1125: one card of the first loop
ScanCard ==
    /\ spc = "scan"
    /\ pos <= Len(cards)
    /\ \E read \in {"ok", "unreadable"} :
          IF read = "unreadable"
          THEN /\ trace' = [trace EXCEPT ![pos] = "unreadable"]
               /\ spc' = IF pos = Len(cards) THEN "parse" ELSE "scan"
               /\ pos' = IF pos = Len(cards) THEN 1 ELSE pos + 1
               /\ UNCHANGED <<fresh_cards, idle>>
          ELSE /\ trace' = [trace EXCEPT ![pos] = ScanStatus(cards[pos])]
               /\ fresh_cards' = IF ScanStatus(cards[pos]) = "fresh"
                                 THEN Append(fresh_cards, pos) ELSE fresh_cards
               /\ idle' = IF StopsScan(cards[pos]) THEN IdleStop ELSE idle
               /\ spc' = IF StopsScan(cards[pos]) \/ pos = Len(cards)
                         THEN "parse" ELSE "scan"
               /\ pos' = IF StopsScan(cards[pos]) \/ pos = Len(cards)
                         THEN 1 ELSE pos + 1
    /\ UNCHANGED <<stop_on_match, docs, seen, processed_ids, attempts, cards>>
    /\ UNCHANGED <<finalVars, merge_count>>
    /\ UNCHANGED notSession

\* lines 1127-1147: one card of the second loop.  from_card returns the
\* fragment ("parsed"), or raises and the identity is read again for a stub
\* ("stub"); either read finds the element stale ("gone"), or the second
\* read raises another exception, which leaves the for loop ("broken")
ParseCard ==
    /\ spc = "parse"
    /\ pos <= Len(fresh_cards)
    /\ LET p == fresh_cards[pos]
           id == cards[p] IN
       \E how \in {"parsed", "stub", "gone", "broken"} :
          IF how = "gone"
          THEN /\ trace' = [trace EXCEPT ![p] = "gone"]
               /\ pos' = pos + 1
               /\ UNCHANGED <<docs, seen, processed_ids, idle, attempts, spc,
                              merge_count>>
          ELSE IF how = "broken"
          THEN /\ trace' = [trace EXCEPT ![p] = "broken"]
               /\ spc' = "raised"
               /\ UNCHANGED <<docs, seen, processed_ids, idle, attempts, pos,
                              merge_count>>
          ELSE LET raw == IF how = "parsed" THEN SessionFragment(id)
                          ELSE StubFragment(id)
                   existing == Get(docs, raw.id, EmptyMap) IN
               \E rd \in (IF NeedsDateParse(existing)
                          THEN SessionDates(raw.date, RAW_LANG, clock)
                          ELSE {NoCall}),
                  imgs \in SeqsOf(MergedImages(MigrateFields(existing), raw)) :
                  LET m == merge_review(existing, raw, clock, clock, rd, imgs) IN
                  /\ processed_ids' = processed_ids \cup {raw.id}
                  /\ IF m.exc = "ok"
                     THEN /\ docs' = Put(docs, raw.id, m.doc)
                          /\ seen' = seen \cup {raw.id}
                          /\ idle' = 0
                          /\ attempts' = 0
                          /\ trace' = [trace EXCEPT ![p] = IF how = "parsed"
                                                           THEN "merged" ELSE "stub"]
                          /\ pos' = pos + 1
                          /\ merge_count' = Put(merge_count, raw.id,
                                                Get(merge_count, raw.id, 0) + 1)
                          /\ UNCHANGED spc
                     ELSE /\ trace' = [trace EXCEPT ![p] = "raised"]
                          /\ spc' = "raised"
                          /\ UNCHANGED <<docs, seen, idle, attempts, pos, merge_count>>
    /\ UNCHANGED <<stop_on_match, cards, fresh_cards>>
    /\ UNCHANGED finalVars
    /\ UNCHANGED notSession

\* an exception of the loop body that leaves scrape by the handler of line 1203
ErrorEscapes == "failed"

\* lines 1177-1180: the handler is inside the while loop, which goes on
ErrorResumes == "loop"

\* lines 1177-1180: an exception left the for loop; the batch is abandoned
HandleError ==
    /\ spc = "raised"
    /\ attempts' = attempts + 1
    /\ spc' = ErrorResumes
    /\ cards' = <<>>
    /\ fresh_cards' = <<>>
    /\ pos' = 0
    /\ trace' = <<>>
    /\ UNCHANGED <<stop_on_match, docs, seen, processed_ids, idle>>
    /\ UNCHANGED <<finalVars, merge_count>>
    /\ UNCHANGED notSession

\* lines 1149-1166 and 1177-1180: the idle test, the counters, the scroll
AfterBatch ==
    /\ spc = "parse"
    /\ pos > Len(fresh_cards)
    /\ IF idle >= IdleLimit
       THEN /\ spc' = "done"
            /\ UNCHANGED <<idle, attempts>>
       ELSE \E scrolled \in BOOLEAN :
               /\ spc' = "loop"
               /\ idle' = IF fresh_cards = <<>> THEN idle + 1 ELSE idle
               /\ attempts' = attempts + (IF fresh_cards = <<>> THEN 1 ELSE 0)
                                       + (IF scrolled THEN 0 ELSE 1)
    /\ cards' = <<>>
    /\ fresh_cards' = <<>>
    /\ pos' = 0
    /\ trace' = <<>>
    /\ UNCHANGED <<stop_on_match, docs, seen, processed_ids>>
    /\ UNCHANGED <<finalVars, merge_count>>
    /\ UNCHANGED notSession

(***************************************************************************)
(* LOCAL FILE STORE  (src/modules/data_storage.py, JSONStorage)            *)
(*                                                                         *)
(* A timestamp value is [t, fmt]: the instant and its representation, an   *)
(* ISO text ("iso": +00:00 or no offset, "isoZ": Z suffix) or a datetime   *)
(* object.  The ids file is a sequence of tokens: identities and "\n".     *)
(***************************************************************************)
IsoZ(t) == [t |-> t, fmt |-> "isoZ"]
DateTime(t) == [t |-> t, fmt |-> "datetime"]

date_fields == {"created_date", "last_modified_date", "review_date"}

\* date_converter.py line 61: the first language of the description, or "en"
FirstLangs(doc) ==
    IF DOMAIN Get(doc, "description", EmptyMap) = {} THEN {"en"}
    ELSE DOMAIN doc["description"]

\* relative_to_datetime(date_str, lang): the datetime, or None (NoCall)
relative_to_datetime(s, lang, now) ==
    IF s = <<>> THEN {NoCall}
    ELSE {IF r.kind = "value" THEN r ELSE NoCall :
             r \in parse_relative_date(s, lang, now)}

\* date_converter.py lines 57-65: pop "date", back-fill review_date from it
PopDate(doc, dt) ==
    IF ~Has(doc, "date") THEN doc
    ELSE IF ~Has(doc, "review_date") /\ dt.kind = "value"
    THEN Put(Del(doc, "date"), "review_date", DateTime(dt.val))
    ELSE Del(doc, "date")

\* date_converter.py lines 68-81: ISO texts become datetime objects
ParseDateFields(doc) ==
    [k \in DOMAIN doc |->
        IF k \in date_fields /\ doc[k].fmt \in {"iso", "isoZ"}
        THEN DateTime(doc[k].t) ELSE doc[k]]

\* every owner response is deleted
DropResponses(doc) == Del(doc, "owner_responses")

\* date_converter.py lines 84-88: the date of every owner response is deleted
DropResponseDates(doc) ==
    IF ~Has(doc, "owner_responses") THEN doc
    ELSE Put(doc, "owner_responses",
             [l \in DOMAIN doc["owner_responses"] |->
                 Del(doc["owner_responses"][l], "date")])

\* every document convert_dates_in_document can return for doc
convert_dates_in_document(doc, now) ==
    {DropResponseDates(ParseDateFields(PopDate(doc, dt))) :
        dt \in UNION {relative_to_datetime(Get(doc, "date", <<>>), l, now) :
                        l \in FirstLangs(doc)}}

\* download_all_images run to its end on an empty image directory, when no
\* two tasks share a file: every fetch that succeeds yields its file name
url_to_filename_of(c, revs, outcome) ==
    [u \in {x \in UrlsOf(revs) : outcome[x] = "ok"} |->
        get_filename_from_url(u, u \in profile_urls(revs))]

url_to_custom_url_of(c, revs, outcome) ==
    [u \in {x \in UrlsOf(revs) : outcome[x] = "ok" /\ c.replace_urls} |->
        get_custom_url(c, get_filename_from_url(u, u \in profile_urls(revs)),
                       u \in profile_urls(revs))]

download_all_images(c, revs, outcome) ==
    IF UrlsOf(revs) = {} THEN revs
    ELSE [id \in DOMAIN revs |->
             RewriteReview(c, revs[id], url_to_filename_of(c, revs, outcome),
                           url_to_custom_url_of(c, revs, outcome))]

RECURSIVE DelAll(_, _)
DelAll(doc, keys) ==
    IF keys = {} THEN doc
    ELSE LET k == CHOOSE x \in keys : TRUE IN DelAll(Del(doc, k), keys \ {k})

\* data_storage.py lines 203-217: the fields the settings do not keep
StripImageFields(c, doc) ==
    DelAll(doc,
           (IF ~c.store_local_paths THEN {"local_images", "local_profile_picture"}
            ELSE {})
           \cup (IF c.replace_urls /\ ~c.preserve_original_urls
                 THEN {"original_image_urls", "original_profile_picture"} ELSE {}))

\* data_storage.py lines 220-225: review[key] = value
AddCustomParams(doc, params) ==
    [k \in DOMAIN doc \cup DOMAIN params |->
        IF k \in DOMAIN params THEN params[k] ELSE doc[k]]

\* data_storage.py lines 228-231: top-level datetime objects become ISO texts
IsoFormat(doc) ==
    [k \in DOMAIN doc |->
        IF k \in date_fields /\ doc[k].fmt = "datetime" THEN Iso(doc[k].t) ELSE doc[k]]

\* load_json_docs line 185: {d.get("review_id", ""): d for d in data if d.get("review_id")}
IndexById(data) ==
    LET ids == {Get(data[i], "review_id", "") : i \in DOMAIN data} \ {""} IN
    [id \in ids |->
        data[CHOOSE i \in DOMAIN data :
                /\ Get(data[i], "review_id", "") = id
                /\ \A j \in DOMAIN data :
                      Get(data[j], "review_id", "") = id => j <= i]]

\* text.splitlines(): the lines between the breaks; a break at the very end
\* opens no further line
RECURSIVE SplitLines(_)
SplitLines(text) ==
    IF text = <<>> THEN <<>>
    ELSE IF Head(text) = "\n" THEN <<"">> \o SplitLines(Tail(text))
    ELSE IF Len(text) = 1 THEN <<Head(text)>>
    ELSE <<Head(text)>> \o SplitLines(SubSeq(text, 3, Len(text)))

(***************************************************************************)
(* SpecStore: one record map and one SeenSet are written to the local      *)
(* files and read back.                                                    *)
(***************************************************************************)
NotLoaded == [done |-> FALSE, value |-> {}]
Loaded(v) == [done |-> TRUE, value |-> v]

ImageSettings ==
    { [download_images |-> FALSE, store_local_paths |-> TRUE, replace_urls |-> FALSE,
       preserve_original_urls |-> TRUE],
      [download_images |-> TRUE, store_local_paths |-> TRUE, replace_urls |-> FALSE,
       preserve_original_urls |-> TRUE],
      [download_images |-> TRUE, store_local_paths |-> FALSE, replace_urls |-> TRUE,
       preserve_original_urls |-> FALSE] }

\* none, or the keys start.py sets for a restaurant (its source and its own
\* rating among them)
CustomParams == {EmptyMap, [source |-> "gmaps", rating |-> 4]}

StoreConfigs ==
    {[convert_dates |-> cd, download_images |-> im.download_images,
      store_local_paths |-> im.store_local_paths, replace_urls |-> im.replace_urls,
      preserve_original_urls |-> im.preserve_original_urls, custom_params |-> cp] :
        cd \in BOOLEAN, im \in ImageSettings, cp \in CustomParams}

\* a document of the current schema with photos, an owner reply and a
\* creation time written with a Z suffix
PhotoDocument ==
    [merge_review(EmptyMap, [FragHe EXCEPT !.id = "r2"], RefNow - 1, RefNow - 1,
                  Value(RefNow - 731), <<Photo1>>).doc
        EXCEPT !["created_date"] = IsoZ(RefNow - 1)]

StoreMaps ==
    { EmptyMap,
      [id \in {"r3"} |-> StoredDocument("r3")],
      [id \in {"r2", "r3"} |-> IF id = "r2" THEN PhotoDocument ELSE StoredDocument("r3")],
      [id \in {"r1"} |-> LegacyDocument],
      [id \in {"r1", "r3"} |-> IF id = "r1" THEN DatedDocument ELSE StoredDocument("r3")] }

SeenSets == {{}, {"r1"}, {"r1", "r2"}, {"", "r1"}}

StoreInit ==
    /\ jcfg \in StoreConfigs
    /\ jdocs_in \in StoreMaps
    /\ jdocs = jdocs_in
    /\ json_file = NoFile
    /\ jloaded = NotLoaded
    /\ ids_in \in SeenSets
    /\ ids_file = NoFile
    /\ ids_loaded = NotLoaded

StoreIdle ==
    /\ jcfg = [convert_dates |-> TRUE, download_images |-> FALSE,
               store_local_paths |-> TRUE, replace_urls |-> FALSE,
               preserve_original_urls |-> TRUE, custom_params |-> EmptyMap]
    /\ jdocs_in = EmptyMap
    /\ jdocs = EmptyMap
    /\ json_file = NoFile
    /\ jloaded = Loaded({})
    /\ ids_in = {}
    /\ ids_file = NoFile
    /\ ids_loaded = Loaded({})

\* the maps convert_dates_in_reviews can return
ConvertedMaps(revs, now) ==
    {f \in [DOMAIN revs -> UNION {convert_dates_in_document(revs[id], now) :
                                    id \in DOMAIN revs}] :
        \A id \in DOMAIN revs : f[id] \in convert_dates_in_document(revs[id], now)}

\* JSONStorage.save_json_docs(docs), lines 190-235
SaveJsonDocs ==
    /\ ~json_file.exists
    /\ \E converted \in (IF jcfg.convert_dates THEN ConvertedMaps(jdocs, clock)
                          ELSE {jdocs}) :
       \E outcome \in [UrlsOf(converted) -> {"ok", "fail"}] :
       \E order \in SeqsOf(DOMAIN jdocs) :
          LET enriched == IF jcfg.download_images
                          THEN [id \in DOMAIN converted |->
                                   StripImageFields(jcfg,
                                       download_all_images(jcfg, converted, outcome)[id])]
                          ELSE converted
              processed_docs == [id \in DOMAIN enriched |->
                                    IsoFormat(AddCustomParams(enriched[id],
                                                              jcfg.custom_params))] IN
          /\ json_file' = File([i \in DOMAIN order |-> processed_docs[order[i]]])
          \* review.copy() is shallow: the owner responses are shared
          /\ jdocs' = IF jcfg.convert_dates
                      THEN [id \in DOMAIN jdocs |-> DropResponseDates(jdocs[id])]
                      ELSE jdocs
    /\ UNCHANGED <<jcfg, jdocs_in, jloaded, ids_in, ids_file, ids_loaded>>
    /\ UNCHANGED notStore

\* JSONStorage.load_json_docs(), lines 178-188
LoadJsonDocs ==
    /\ json_file.exists
    /\ ~jloaded.done
    /\ jloaded' = Loaded(IndexById(json_file.data))
    /\ UNCHANGED <<jcfg, jdocs_in, jdocs, json_file, ids_in, ids_file, ids_loaded>>
    /\ UNCHANGED notStore

\* JSONStorage.save_seen(ids), lines 242-244
SaveSeen ==
    /\ ~ids_file.exists
    /\ \E order \in SeqsOf(ids_in) : ids_file' = File(JoinLines(order))
    /\ UNCHANGED <<jcfg, jdocs_in, jdocs, json_file, jloaded, ids_in, ids_loaded>>
    /\ UNCHANGED notStore

\* JSONStorage.load_seen(), lines 237-240
LoadSeen ==
    /\ ids_file.exists
    /\ ~ids_loaded.done
    /\ ids_loaded' = Loaded(Range(SplitLines(ids_file.data)))
    /\ UNCHANGED <<jcfg, jdocs_in, jdocs, json_file, jloaded, ids_in, ids_file>>
    /\ UNCHANGED notStore

StoreNext ==
    \/ SaveJsonDocs
    \/ LoadJsonDocs
    \/ SaveSeen
    \/ LoadSeen

(***************************************************************************)
(* FINALIZE  (src/modules/scraper.py lines 1182-1206)                      *)
(*                                                                         *)
(* The loop has ended: the record map goes to the database, then to the    *)
(* local file, then the SeenSet goes to the ids file.  The storage         *)
(* handlers run with the settings jcfg.                                    *)
(***************************************************************************)
\* UpdateOne({"review_id": ...}, {"$set": review}, upsert=True): the fields of
\* the review overwrite those of the stored document, the others stay
SetFields(old, new) ==
    [k \in DOMAIN old \cup DOMAIN new |-> IF k \in DOMAIN new THEN new[k] ELSE old[k]]

\* data_storage.py lines 141-157: bulk_write of one upsert per review
Upsert(coll, revs) ==
    LET ids == {revs[k]["review_id"] : k \in DOMAIN revs} IN
    [id \in DOMAIN coll \cup ids |->
        IF id \in ids
        THEN LET k == CHOOSE x \in DOMAIN revs : revs[x]["review_id"] = id IN
             SetFields(Get(coll, id, EmptyMap), revs[k])
        ELSE coll[id]]

\* the outcomes of the image pass of a save, when the settings ask for one
ImageOutcomes(revs) ==
    IF jcfg.download_images THEN [UrlsOf(revs) -> {"ok", "fail"}] ELSE {EmptyMap}

\* lines 201-218 of data_storage.py (114-132 for the database)
EnrichedForSave(revs, outcome) ==
    IF jcfg.download_images
    THEN [id \in DOMAIN revs |->
             StripImageFields(jcfg, download_all_images(jcfg, revs, outcome)[id])]
    ELSE revs

\* line 157: bulk_write(operations) is ordered (the default of pymongo): the
\* operations are applied in list order and the first rejected write ends the
\* batch with BulkWriteError
AppliedOrdered(order, bad) ==
    {order[i] : i \in {j \in DOMAIN order : \A k \in 1..j : order[k] # bad}}

\* a save_reviews that lets the exception of a failed save out, to the handler
\* of scraper.py line 1203
SaveReviewsRaises(how) == IF how = "written" THEN "saved" ELSE "failed"

\* data_storage.py lines 102-104 and 159-160: a failed connection is a
\* warning, an exception of the save is logged; save_reviews returns
SaveReviewsReturns(how) == "saved"

\* scraper.py lines 1184-1187 and MongoDBStorage.save_reviews (96-160): the
\* server is unreachable ("down"), the server rejects the write of one record
\* and bulk_write raises ("write_error"), or the reviews are upserted;
\* reviews.copy() is shallow, so the documents that are processed are the
\* documents of the session; the operations are in the order of the dict
SaveReviews ==
    /\ spc = "done"
    /\ IF ~storage.use_mongodb
       THEN /\ spc' = "saved"
            /\ UNCHANGED <<docs, db, persist>>
       ELSE IF docs = EmptyMap
       THEN /\ spc' = "saved"
            /\ persist' = [persist EXCEPT !.mongodb = "empty"]
            /\ UNCHANGED <<docs, db>>
       ELSE \E how \in {"down", "write_error", "written"} :
               /\ spc' = SaveReviewsReturns(how)
               /\ IF how = "down"
                  THEN /\ persist' = [persist EXCEPT !.mongodb = how]
                       /\ UNCHANGED <<docs, db>>
                  ELSE \E converted \in (IF jcfg.convert_dates
                                         THEN ConvertedMaps(docs, clock) ELSE {docs}) :
                       \E outcome \in ImageOutcomes(converted) :
                          LET processed_reviews ==
                                  [id \in DOMAIN converted |->
                                      Del(AddCustomParams(
                                              EnrichedForSave(converted, outcome)[id],
                                              jcfg.custom_params), "_id")] IN
                          /\ docs' = processed_reviews
                          /\ IF how = "written"
                             THEN /\ db' = Upsert(db, processed_reviews)
                                  /\ persist' = [persist EXCEPT !.mongodb = how]
                             ELSE \E bad \in DOMAIN processed_reviews :
                                     /\ db' = Upsert(db,
                                                [id \in AppliedOrdered(
                                                           OneOrder(DOMAIN processed_reviews),
                                                           bad) |->
                                                    processed_reviews[id]])
                                     /\ persist' = [persist EXCEPT !.mongodb = how,
                                                                   !.rejected = {bad}]
    /\ UNCHANGED <<stop_on_match, seen, processed_ids, idle, attempts, cards, fresh_cards,
                   pos, trace, storage, json_store, ids_store, merge_count>>
    /\ UNCHANGED notSession

\* scraper.py lines 1189-1206 with save_json_docs (190-235) and save_seen
\* (242-244): json.dumps or the opening of the JSON file raises
\* ("json_error"), the writing of the ids file raises ("seen_error"), or both
\* files are written; an exception ends scrape by the handler of line 1203
BackupJson ==
    /\ spc = "saved"
    /\ IF ~storage.backup_to_json
       THEN /\ spc' = "finished"
            /\ UNCHANGED <<docs, json_store, ids_store, persist>>
       ELSE \E how \in {"json_error", "seen_error", "written"} :
            \E converted \in (IF jcfg.convert_dates
                              THEN ConvertedMaps(docs, clock) ELSE {docs}) :
            \E outcome \in ImageOutcomes(converted) :
               LET processed_docs ==
                       [id \in DOMAIN converted |->
                           IsoFormat(AddCustomParams(
                               EnrichedForSave(converted, outcome)[id],
                               jcfg.custom_params))] IN
               /\ docs' = IF jcfg.convert_dates
                           THEN [id \in DOMAIN docs |-> DropResponseDates(docs[id])]
                           ELSE docs
               /\ json_store' = IF how = "json_error" THEN json_store
                                 ELSE File(ListOf(processed_docs))
               /\ ids_store' = IF how = "written" THEN File(JoinLines(OneOrder(seen)))
                                ELSE ids_store
               /\ persist' = [persist EXCEPT
                                 !.json = IF how = "json_error" THEN "error" ELSE "written",
                                 !.seen = CASE how = "json_error" -> "none"
                                            [] how = "seen_error" -> "error"
                                            [] OTHER -> "written"]
               /\ spc' = IF how = "written" THEN "finished" ELSE "failed"
    /\ UNCHANGED <<stop_on_match, seen, processed_ids, idle, attempts, cards, fresh_cards,
                   pos, trace, storage, db, merge_count>>
    /\ UNCHANGED notSession

\* load_seen (237-240), as the bootstrap of the next run calls it (line 1059)
NextRunSeen ==
    IF ids_store.exists THEN Range(SplitLines(ids_store.data)) ELSE {}

SessionNext ==
    \/ LoopExit
    \/ PullBatch
    \/ PullFails
    \/ ScanCard
    \/ ParseCard
    \/ HandleError
    \/ AfterBatch
    \/ SaveReviews
    \/ BackupJson

(***************************************************************************)
(* Specifications: each subsystem runs with the others at rest.            *)
(***************************************************************************)
InitDate == DateInit /\ MergeIdle /\ EnrichIdle /\ SessionIdle /\ StoreIdle

SpecDate == InitDate /\ [][DateNext]_vars

InitMerge == MergeInit /\ DateIdle /\ EnrichIdle /\ SessionIdle /\ StoreIdle

SpecMerge == InitMerge /\ [][MergeNext]_vars

InitEnrich == EnrichInit /\ DateIdle /\ MergeIdle /\ SessionIdle /\ StoreIdle

SpecEnrich == InitEnrich /\ [][EnrichNext]_vars

InitSession == SessionInit /\ DateIdle /\ MergeIdle /\ EnrichIdle /\ StoreIdle

SpecSession == InitSession /\ [][SessionNext]_vars

\* the session of one store configuration; scrape is one thread, which
\* takes its next step as long as it has one
InitLoop == InitSession /\ ~stop_on_match /\ storage.use_mongodb /\ storage.backup_to_json

SpecLoop == InitLoop /\ [][SessionNext]_vars /\ WF_vars(SessionNext)

InitStore == StoreInit /\ DateIdle /\ MergeIdle /\ EnrichIdle /\ SessionIdle

SpecStore == InitStore /\ [][StoreNext]_vars

(***************************************************************************)
(* Claims about the date normalizer                                        *)
(***************************************************************************)
\* what the specification states for each unit, in days
ClaimDays == [day |-> 1, week |-> 7, month |-> 30, year |-> 365]

\* C5: date normalization determinism.  For a fixed reference time, a phrase
\* of the relative-date grammar stating N units gives exactly
\* now - N * (1 | 7 | 30 | 365) days whenever that day is a timestamp, under
\* every language hint ("a"/"an" count 1, the Hebrew dual forms count 2), and
\* a second call with the same text, hint and reference time returns the same
\* value.
C5_DateDeterminism ==
    \A c \in GrammarCases :
        (date_str = c.text /\ parsed # NoCall) =>
            /\ (ref_now - ClaimDays[c.unit] * c.n >= MinOrdinal =>
                    parsed = Value(ref_now - ClaimDays[c.unit] * c.n))
            /\ (reparsed # "none" => reparsed = "same")

\* C5 witness: the Hebrew dual "two months" under an English hint gave
\* now - 60 days, twice.
C5_Witness ==
    /\ date_str = <<Word("lifney"), Word("chodshayim")>>
    /\ hint = "en"
    /\ parsed = Value(ref_now - 60)
    /\ reparsed = "same"

\* no supported language matches the text
NoLanguageMatches(s, now) ==
    \A i \in DOMAIN supported_langs : try_parse_date(s, supported_langs[i], now) = Unparsed

\* C8: the date normalizer is total.  Every call returns a timestamp, never
\* the unparsed input and never an exception; when no supported language
\* matches, the timestamp lies in [now - 365, now - 1].
C8_DateTotal ==
    parsed # NoCall =>
        /\ parsed.kind = "value"
        /\ (NoLanguageMatches(date_str, ref_now) =>
                /\ parsed.val >= ref_now - 365
                /\ parsed.val <= ref_now - 1)


(***************************************************************************)
(* Claims about merge_review                                               *)
(***************************************************************************)
\* a step of the model is a merge_review call
IsMergeCall == merges' = merges + 1

\* the images a document holds (under the current or the legacy field name)
ImagesOf(r) == Range(Get(r, "user_images", Get(r, "photo_urls", <<>>)))

\* a fragment whose content the document already reflects, field by field as
\* the claim lists them
Reflected(r, f) ==
    /\ f.id = Get(r, "review_id", "")
    /\ (f.text # <<>> => /\ Has(r, "description")
                         /\ Has(r["description"], f.lang)
                         /\ r["description"][f.lang] = f.text)
    /\ f.likes <= Get(r, "likes", 0)
    /\ Range(f.photos) \subseteq Range(Get(r, "user_images", <<>>))
    /\ Len(f.avatar) <= Len(Get(r, "profile_picture", <<>>))
    /\ (f.owner_text # <<>> =>
            /\ Has(r, "owner_responses")
            /\ Has(r["owner_responses"], detect_lang(f.owner_text))
            /\ r["owner_responses"][detect_lang(f.owner_text)] = [text |-> f.owner_text])

\* equal in every field except last_modified_date, images compared as a set
SameExceptLastModified(r, q) ==
    /\ DOMAIN q \ {"last_modified_date"} = DOMAIN r \ {"last_modified_date"}
    /\ \A k \in DOMAIN r \ {"last_modified_date", "user_images"} : q[k] = r[k]
    /\ (Has(r, "user_images") => Range(q["user_images"]) = Range(r["user_images"]))

\* a document holding every field of the current schema and no legacy date
CurrentFields ==
    {"review_id", "author", "rating", "description", "likes", "user_images",
     "author_profile_url", "profile_picture", "owner_responses", "created_date",
     "review_date"}

CurrentSchema(r) == CurrentFields \subseteq DOMAIN r /\ ~Has(r, "date")

\* C1 as stated: idempotent re-merge.  For any stored document r and any
\* fragment f with r's identity whose body text, likes, photos, avatar and
\* owner reply are already reflected in r, merge_review(r, f) returns a
\* document equal to r in every field except last_modified_date.
C1_Original ==
    [][(IsMergeCall /\ rec # EmptyMap /\ Reflected(rec, frag'))
          => (merge_exc' = "ok" /\ SameExceptLastModified(rec, rec'))]_vars

\* C1 amended: the same, for a stored document of the current schema (every
\* current field present, no legacy "date") and a fragment whose rating is
\* reflected too (the stored rating is non-zero, or the fragment's rating
\* equals it).
C1_IdempotentReMerge ==
    [][(/\ IsMergeCall
        /\ rec # EmptyMap
        /\ CurrentSchema(rec)
        /\ Reflected(rec, frag')
        /\ (rec["rating"] # 0 \/ frag'.rating = rec["rating"]))
          => (merge_exc' = "ok" /\ SameExceptLastModified(rec, rec'))]_vars

\* C1 witness: FragHe created the document and was merged a second time.
C1_Witness ==
    /\ merges = 2
    /\ merge_exc = "ok"
    /\ frag = FragHe
    /\ rec["created_date"].t >= RefNow
    /\ rec["review_date"].t = rec["created_date"].t - 730
    /\ rec["likes"] = 2
    /\ rec["description"] = [he |-> TextMeule]

\* C2: monotonic images.  Every merge_review call leaves a document whose
\* images are a superset of the images before the call; after a call that
\* returned, the images hold the photo URLs of every fragment merged so far,
\* each once.
C2_MonotonicImages ==
    [][IsMergeCall =>
          /\ ImagesOf(rec) \subseteq ImagesOf(rec')
          /\ (merge_exc' = "ok" =>
                 /\ merged_photos' \subseteq Range(rec'["user_images"])
                 /\ NoDup(rec'["user_images"]))]_vars

\* C2 witness: two fragments with different photos were merged and the
\* document holds both photos.
C2_Witness ==
    /\ merges = 2
    /\ merge_exc = "ok"
    /\ frag = FragHe
    /\ merged_photos = {Photo1, Photo2}
    /\ Range(rec["user_images"]) = {Photo1, Photo2}

\* C3: single review_date assignment.  The call that creates the document
\* sets review_date from the creating fragment's date text, and no later
\* call changes a review_date that is present, whatever date text the later
\* fragment carries.
C3_SingleReviewDate ==
    [][IsMergeCall =>
          /\ (Has(rec, "review_date") =>
                 Has(rec', "review_date") /\ rec'["review_date"] = rec["review_date"])
          /\ ((rec = EmptyMap /\ rec' # EmptyMap) =>
                 Value(rec'["review_date"].t)
                     \in parse_relative_date(frag'.date, RAW_LANG,
                                             rec'["created_date"].t))]_vars

\* C3 witness: created from "a week ago", then merged with a fragment dated
\* "2 years ago": review_date is still creation time minus 7 days.
C3_Witness ==
    /\ merges = 2
    /\ merge_exc = "ok"
    /\ frag.date = DateYears
    /\ rec["created_date"].t >= RefNow
    /\ rec["review_date"].t = rec["created_date"].t - 7

\* C9: merge_review never raises and always returns a document of the
\* fragment's identity, for every fragment and every stored document
\* (none, older schema, or lacking description, likes or user_images).
C9_MergeNeverRaises ==
    merges > 0 =>
        /\ merge_exc = "ok"
        /\ rec # EmptyMap
        /\ rec["review_id"] = frag.id

(***************************************************************************)
(* Claims about the image enrichment                                       *)
(***************************************************************************)
FailedIn(p, t) == [pass |-> p, task |-> t, stored |-> FALSE] \in fetch_log
StoredIn(p, t) == [pass |-> p, task |-> t, stored |-> TRUE] \in fetch_log

\* no fetch breaks after its file was opened: every fetch ends the same way
\* in both passes (stored, then cached; or failed twice)
SteadyOutcomes == \A u \in DOMAIN net : net[u] # "broken"

\* C4: enrichment idempotence.  With fetch outcomes that are the same in both
\* passes, the record map returned by a second download_all_images pass over
\* the output of the first equals the output of the first, and the second
\* pass fetches no URL whose file the first pass stored.
C4_EnrichIdempotent ==
    (SteadyOutcomes /\ Len(outputs) >= 2) =>
        /\ outputs[2] = outputs[1]
        /\ \A e \in fetch_log : e.pass = 2 => ~StoredIn(1, e.task)

\* C10: fetch failure isolation.  download_all_images never ends with an
\* exception, and when a pass with downloads has returned, every task was
\* run to its end and has a result of its own: empty filename and custom URL
\* exactly for the tasks whose fetch failed in this pass, the derived
\* filename and custom URL for every other task.
C10_FetchFailureIsolation ==
    /\ epc # "raised"
    /\ (epc = "returned" /\ tasks # <<>>) =>
          \A i \in DOMAIN tasks :
              /\ tstate[i] = "done"
              /\ results[i].url = tasks[i].url
              /\ IF FailedIn(passes, tasks[i])
                 THEN results[i].filename = <<>> /\ results[i].custom_url = <<>>
                 ELSE results[i] = Downloaded(cfg, tasks[i])

\* a pass has returned in which one fetch failed and a task queued behind it
\* was fetched and stored
C10_Witness ==
    /\ epc = "returned"
    /\ \E i, j \in DOMAIN tasks :
          /\ i < j
          /\ FailedIn(passes, tasks[i])
          /\ StoredIn(passes, tasks[j])
          /\ results[j].filename # <<>>
          /\ Has(url_to_filename, tasks[j].url)
          /\ ~Has(url_to_filename, tasks[i].url)

(***************************************************************************)
(* Claims about the collection session                                     *)
(***************************************************************************)
\* positions of the batch whose identity was read and found in the SeenSet
SeenMatches == {p \in DOMAIN trace : trace[p] = "seen"}

\* the batch is over: the second loop ran to its end, or was abandoned
BatchOver == (spc = "parse" /\ pos > Len(fresh_cards)) \/ spc = "raised"

\* C6: stop-on-match within a batch.  With stop_on_match enabled, in a batch
\* where the identity read at some position is already in the SeenSet, no card
\* after the first such position is read, parsed or merged, and when the batch
\* is over every fragment the cards before that position yielded is merged.
C6_StopOnMatchBatch ==
    (stop_on_match /\ SeenMatches # {}) =>
        LET m == Min(SeenMatches) IN
        /\ \A p \in DOMAIN trace : p > m => trace[p] = "unread"
        /\ BatchOver =>
              \A p \in 1..(m - 1) :
                  trace[p] \in {"unreadable", "no_id", "processed", "gone",
                                "merged", "stub"}

(***************************************************************************)
(* Claims about the local file store                                       *)
(***************************************************************************)
\* a document with every timestamp reduced to its instant
Instants(doc) ==
    [k \in DOMAIN doc |-> IF k \in date_fields THEN doc[k].t ELSE doc[k]]

\* the loaded map has the keys of a and, key by key, the field values of a
\* up to the representation of the timestamps
SameRecords(a, b) ==
    /\ DOMAIN a = DOMAIN b
    /\ \A id \in DOMAIN a : Instants(a[id]) = Instants(b[id])

NonEmptyIdentities ==
    /\ \A id \in DOMAIN jdocs_in : id # "" /\ Get(jdocs_in[id], "review_id", "") = id
    /\ "" \notin ids_in

\* no document carries a legacy "date", at the top or in an owner response
NoLegacyDates ==
    \A id \in DOMAIN jdocs_in :
        /\ ~Has(jdocs_in[id], "date")
        /\ \A l \in DOMAIN Get(jdocs_in[id], "owner_responses", EmptyMap) :
              ~Has(jdocs_in[id]["owner_responses"][l], "date")

RoundTrips ==
    /\ jloaded.done /\ json_file.exists => SameRecords(jdocs_in, jloaded.value)
    /\ ids_loaded.done /\ ids_file.exists => ids_loaded.value = ids_in

\* C7 as stated: for any record map whose records carry a non-empty identity,
\* load_json_docs after save_json_docs yields the same keys and field values
\* (up to timestamp format), and load_seen after save_seen the same set.
C7_Original == NonEmptyIdentities => RoundTrips

\* C7: round-trip persistence.  For a record map whose records carry a
\* non-empty identity and no legacy "date" field, saved with image download
\* off and no custom parameters, load_json_docs after save_json_docs yields
\* the same keys and, key by key, the same field values up to timestamp
\* format; load_seen after save_seen yields the same set of non-empty
\* identities.
C7_RoundTrip ==
    (NonEmptyIdentities /\ NoLegacyDates /\ ~jcfg.download_images
       /\ jcfg.custom_params = EmptyMap) => RoundTrips

\* a map of two documents, one with photos, an owner reply and a Z-suffixed
\* timestamp, went through date conversion to the file and back, and a set
\* of two identities through the ids file and back
C7_Witness ==
    /\ NonEmptyIdentities /\ NoLegacyDates
    /\ ~jcfg.download_images /\ jcfg.custom_params = EmptyMap /\ jcfg.convert_dates
    /\ jloaded.done /\ DOMAIN jloaded.value = {"r2", "r3"}
    /\ jloaded.value["r2"]["created_date"] # jdocs_in["r2"]["created_date"]
    /\ ids_loaded.done /\ ids_loaded.value = {"r1", "r2"}

(***************************************************************************)
(* C11  Bounded concurrency: at every moment of the download phase the     *)
(* number of downloads in flight (requested or being written) is at most   *)
(* max_workers, the download_threads setting, however many URLs there are  *)
(* to fetch.                                                               *)
(***************************************************************************)
C11_BoundedConcurrency ==
    epc = "pool" => InFlight <= cfg.max_workers

\* the pool is full while a further URL waits for a worker
C11_Witness ==
    /\ epc = "pool"
    /\ Len(tasks) > cfg.max_workers
    /\ InFlight = cfg.max_workers
    /\ \E i \in DOMAIN tasks : tstate[i] = "queued"

(***************************************************************************)
(* Claims about finalize                                                  *)
(***************************************************************************)
\* the identities merge_review returned a document for in this run
MergedIds == DOMAIN merge_count

\* scrape has returned
RunOver == spc \in {"finished", "failed"}

\* the identities of the documents of a JSON file
IdsOfList(data) == {Get(data[i], "review_id", "") : i \in DOMAIN data}

(***************************************************************************)
(* C12  Finalize is always attempted: once the streaming loop has been     *)
(* entered, scrape returns only after the persistence step has been        *)
(* attempted on every enabled target, whichever way the loop ended (idle   *)
(* limit, attempt limit, an exception inside the loop, a stale pane that   *)
(* is not found again), and the record map handed to persistence holds     *)
(* every identity merged during the run.                                   *)
(***************************************************************************)
C12_FinalizeAttempted ==
    RunOver =>
        /\ MergedIds \subseteq DOMAIN docs
        /\ storage.use_mongodb =>
              /\ persist.mongodb \in {"empty", "down", "write_error", "written"}
              /\ persist.mongodb = "empty" => MergedIds = {}
              /\ persist.mongodb = "written" => MergedIds \subseteq DOMAIN db
        /\ storage.backup_to_json =>
              /\ persist.json \in {"error", "written"}
              /\ persist.json = "written" =>
                    MergedIds \subseteq IdsOfList(json_store.data)

\* a fragment was merged, exceptions then used up every attempt, and both
\* targets were written
C12_Witness ==
    /\ spc = "finished"
    /\ attempts >= max_attempts
    /\ MergedIds # {}
    /\ persist.mongodb = "written"
    /\ persist.json = "written"

(***************************************************************************)
(* C13  Persistence target isolation: with both the database and the local *)
(* file enabled, a failed database save (server unreachable or a write     *)
(* error) is followed by the save to the local file, which then holds      *)
(* every document of the record map unless the file write fails itself;    *)
(* and a failed file write finds the database save already made.           *)
(***************************************************************************)
C13_TargetIsolation ==
    (RunOver /\ storage.use_mongodb /\ storage.backup_to_json /\ docs # EmptyMap) =>
        /\ persist.mongodb \in {"down", "write_error"} =>
              /\ persist.json \in {"error", "written"}
              /\ persist.json = "written" => IdsOfList(json_store.data) = DOMAIN docs
        /\ (persist.json = "error" \/ persist.seen = "error") =>
              /\ persist.mongodb \in {"down", "write_error", "written"}
              /\ persist.mongodb = "written" => DOMAIN docs \subseteq DOMAIN db

\* the database was unreachable and the local file holds the merged records
C13_Witness ==
    /\ RunOver
    /\ storage.use_mongodb /\ storage.backup_to_json
    /\ MergedIds # {}
    /\ persist.mongodb = "down"
    /\ persist.json = "written"
    /\ MergedIds \subseteq IdsOfList(json_store.data)

(***************************************************************************)
(* C14  SeenSet persistence: when a run that reached persistence has       *)
(* returned, in every store configuration (database only, local file       *)
(* only, both), the ids file holds the updated SeenSet: the SeenSet the    *)
(* bootstrap of the next run loads contains every identity merged in this  *)
(* run.                                                                    *)
(***************************************************************************)
C14_SeenPersisted ==
    RunOver => MergedIds \subseteq NextRunSeen

(***************************************************************************)
(* C15  Each identity is merged at most once per run: merge_review is not  *)
(* called for a fragment whose identity is in the SeenSet loaded at        *)
(* bootstrap, nor for one whose identity was processed earlier in the run, *)
(* in an earlier batch or earlier in the same batch.  (Until the run       *)
(* rewrites it, the ids file holds the SeenSet bootstrap loaded.)          *)
(***************************************************************************)
C15_MergedOnce ==
    ~RunOver =>
        \A id \in MergedIds : merge_count[id] <= 1 /\ id \notin NextRunSeen

(***************************************************************************)
(* C16  Stop-on-match ends the loop: with stop_on_match enabled, a batch   *)
(* in which an already-seen identity was met is the last one: when the     *)
(* batch is over the streaming loop ends, and no further batch is pulled,  *)
(* also when fresh fragments preceded the match in that batch.             *)
(***************************************************************************)
C16_StopOnMatchEndsLoop ==
    [][(stop_on_match /\ spc \in {"parse", "raised"} /\ BatchOver
          /\ \E p \in DOMAIN trace : trace[p] \in {"seen", "processed"})
       => spc' \in {spc, "done"}]_vars

(***************************************************************************)
(* C17  Idle termination: when idle has counted 3 (IdleLimit) non-empty    *)
(* batches in a row that yielded no new fragment, the streaming loop ends  *)
(* there: the next step of the loop is its end, not another pull from the  *)
(* source.                                                                 *)
(***************************************************************************)
C17_IdleEndsLoop ==
    [][(spc = "loop" /\ idle = IdleLimit) => spc' = "done"]_vars

(***************************************************************************)
(* C18  Parse failure recovery: when the extraction of one fragment of a   *)
(* batch has failed (from_card raised an exception other than a stale      *)
(* element), then at the end of the batch a record of that identity is     *)
(* stored, the identity is in the SeenSet, and every fresh card after it   *)
(* in the batch was merged (or had gone stale).                            *)
(***************************************************************************)
C18_ParseFailureRecovery ==
    BatchOver =>
        \A p \in DOMAIN trace :
            trace[p] \in {"stub", "broken"} =>
                /\ cards[p] \in seen
                /\ Has(docs, cards[p])
                /\ \A i \in DOMAIN fresh_cards :
                      fresh_cards[i] > p =>
                          trace[fresh_cards[i]] \in {"merged", "stub", "gone"}

(***************************************************************************)
(* Claims about the fields of a merged record                              *)
(***************************************************************************)
\* the description of a document, under its current or its legacy name
DescriptionOf(r) ==
    IF Has(r, "description") THEN r["description"] ELSE Get(r, "texts", EmptyMap)

(***************************************************************************)
(* C19  Language retention: across merge_review calls for one identity a   *)
(* language key present in the description stays present; a merge writes   *)
(* only the entry of the fragment's own language, and only when the        *)
(* fragment's text is non-empty, and leaves every other language's entry   *)
(* unchanged.                                                              *)
(***************************************************************************)
C19_LanguageRetention ==
    [][IsMergeCall =>
          LET before == DescriptionOf(rec)
              after == DescriptionOf(rec') IN
          /\ DOMAIN before \subseteq DOMAIN after
          /\ \A l \in DOMAIN after :
                (l # frag'.lang \/ frag'.text = <<>> \/ merge_exc' # "ok") =>
                    l \in DOMAIN before /\ after[l] = before[l]
          /\ (merge_exc' = "ok" /\ frag'.text # <<>>) =>
                Has(after, frag'.lang) /\ after[frag'.lang] = frag'.text]_vars

\* a Hebrew text was merged into a record that keeps its English text
C19_Witness ==
    /\ merges = 2
    /\ merge_exc = "ok"
    /\ frag.lang = "he" /\ frag.text # <<>>
    /\ Has(rec, "description")
    /\ DOMAIN rec["description"] = {"en", "he"}
    /\ rec["description"]["en"] = TextGreat

(***************************************************************************)
(* C20  Timestamp order: in every record merge_review returns, new or      *)
(* existing, also an existing one that had no created_date,                *)
(* last_modified_date >= created_date, the clock never going backwards;    *)
(* and a merge onto a record that has a created_date leaves it unchanged.  *)
(***************************************************************************)
C20_TimestampOrder ==
    [][(IsMergeCall /\ merge_exc' = "ok") =>
          /\ Has(rec', "created_date") /\ Has(rec', "last_modified_date")
          /\ rec'["last_modified_date"].t >= rec'["created_date"].t
          /\ Has(rec, "created_date") => rec'["created_date"] = rec["created_date"]]_vars

\* a record that got its created_date in a first merge is merged again
\* later: created_date is that of the first merge, last_modified_date is later
C20_Witness ==
    /\ merges = 2
    /\ merge_exc = "ok"
    /\ rec["created_date"].t = RefNow
    /\ rec["last_modified_date"].t >= RefNow + 2

(***************************************************************************)
(* Claims about the rewrite of the image fields                            *)
(***************************************************************************)
\* the step in which download_all_images rewrites the record map
IsRewrite == epc = "pool" /\ epc' = "returned"

\* user_images of a record
UserImages(r) == Get(r, "user_images", <<>>)

(***************************************************************************)
(* C21  No image URL is dropped by the rewrite: with replace_urls enabled, *)
(* every URL that was in a record's user_images before the pass is         *)
(* represented afterwards by its custom URL when a mapping was produced    *)
(* for it, and by itself otherwise (its fetch failed, or it was added      *)
(* after original_image_urls was captured); the number of images of the    *)
(* record does not decrease.                                               *)
(***************************************************************************)
C21_NoUrlDropped ==
    [][(IsRewrite /\ cfg.replace_urls) =>
          \A id \in DOMAIN reviews :
              /\ \A u \in Range(UserImages(reviews[id])) :
                    IF Has(url_to_custom_url, u)
                    THEN url_to_custom_url[u] \in Range(UserImages(reviews'[id]))
                    ELSE u \in Range(UserImages(reviews'[id]))
              /\ Len(UserImages(reviews'[id])) >= Len(UserImages(reviews[id]))]_vars

(***************************************************************************)
(* Claims about the owner reply and the legacy date                        *)
(***************************************************************************)
\* owner_responses of a document ({} when the field is absent)
OwnerResponses(r) == Get(r, "owner_responses", EmptyMap)

(***************************************************************************)
(* C22  Owner reply upsert: a merge_review call that returns, for a        *)
(* fragment whose owner reply text is non-empty, leaves owner_responses    *)
(* with an entry {text: reply} and nothing else under the language         *)
(* detected from the reply text (not the review's language); that entry    *)
(* replaces the earlier one of that language and every other language's    *)
(* entry is unchanged.  With an empty reply text, and in a call that       *)
(* raises, owner_responses is unchanged.                                   *)
(***************************************************************************)
C22_OwnerReplyUpsert ==
    [][IsMergeCall =>
          LET before == OwnerResponses(rec)
              after == OwnerResponses(rec')
              reply == frag'.owner_text IN
          IF merge_exc' = "ok" /\ reply # <<>>
          THEN /\ DOMAIN after = DOMAIN before \cup {detect_lang(reply)}
               /\ after[detect_lang(reply)] = [text |-> reply]
               /\ \A l \in DOMAIN before : l # detect_lang(reply) => after[l] = before[l]
          ELSE after = before]_vars

\* a reply in English to a review of another language was filed under "en",
\* next to the dated Hebrew reply an earlier schema stored
C22_Witness ==
    /\ merge_exc = "ok"
    /\ frag.owner_text = TextThanks
    /\ frag.lang # "en"
    /\ Has(rec, "owner_responses")
    /\ DOMAIN rec["owner_responses"] = {"he", "en"}
    /\ rec["owner_responses"]["en"] = [text |-> TextThanks]
    /\ rec["owner_responses"]["he"] = [text |-> TextToda, date |-> DateWeek]

(***************************************************************************)
(* C23  Legacy date backfill: a merge_review call that returns, on a       *)
(* stored record holding a legacy "date" text, removes that field; when    *)
(* the record had no review_date, the review_date it gets is the legacy    *)
(* date text parsed (not the date text of the incoming fragment); when it  *)
(* had one, review_date is unchanged.                                      *)
(***************************************************************************)
C23_LegacyDateBackfill ==
    [][(IsMergeCall /\ merge_exc' = "ok" /\ Has(rec, "date")) =>
          /\ ~Has(rec', "date")
          /\ Has(rec', "review_date")
          /\ IF Has(rec, "review_date")
             THEN rec'["review_date"] = rec["review_date"]
             ELSE \E rd \in parse_relative_date(rec["date"], RAW_LANG, clock) :
                     rd.kind = "value" /\ rec'["review_date"] = Iso(rd.val)]_vars

(***************************************************************************)
(* Claims about the database save                                          *)
(***************************************************************************)
\* the collection holds the document d of the record map under its identity
Stored(d) ==
    /\ Has(db, d["review_id"])
    /\ \A k \in DOMAIN d : Has(db[d["review_id"]], k) /\ db[d["review_id"]][k] = d[k]

(***************************************************************************)
(* C24  Independent upserts: when save_reviews has run over a working      *)
(* connection and the write of one record was rejected, every other record *)
(* of the record map is stored in the collection.                          *)
(***************************************************************************)
C24_IndependentUpserts ==
    (spc = "saved" /\ persist.mongodb = "write_error") =>
        \A id \in DOMAIN docs \ persist.rejected : Stored(docs[id])

(***************************************************************************)
(* Claims about the threads of the download phase                          *)
(***************************************************************************)
\* the URL -> filename and URL -> custom URL maps of the running pass
SharedMaps == <<url_to_filename, url_to_custom_url>>

\* the state the worker threads write: their position, their result slot,
\* the image directory
WorkerState == <<tstate, results, files>>

\* a worker is still running
WorkersRunning == \E i \in DOMAIN tstate : tstate[i] # "done"

\* C25 as stated: the shared maps are written only after every download
\* worker has completed.
C25_Original ==
    [][(epc = "pool" /\ SharedMaps' # SharedMaps) => ~WorkersRunning]_vars

(***************************************************************************)
(* C25  Result aggregation: during the download phase the shared maps are  *)
(* written by the main thread only, one result at a time in task order,    *)
(* and the result of a task only after the worker of that task has         *)
(* completed (other workers may still run); no step of a worker writes     *)
(* the maps, so at no moment do two threads write to them.                 *)
(***************************************************************************)
C25_SingleWriter ==
    [][(epc = "pool" /\ (SharedMaps' # SharedMaps \/ consumed' # consumed)) =>
          /\ consumed' = consumed + 1
          /\ tstate[consumed'] = "done"
          /\ WorkerState' = WorkerState
          /\ \A u \in DOMAIN url_to_filename' :
                u \in DOMAIN url_to_filename \/ u = tasks[consumed'].url
          /\ \A u \in DOMAIN url_to_custom_url' :
                u \in DOMAIN url_to_custom_url \/ u = tasks[consumed'].url]_vars

\* the main thread has written the result of the first task into the maps
\* while the worker of a later task is still downloading
C25_Witness ==
    /\ epc = "pool"
    /\ consumed >= 1
    /\ Has(url_to_filename, tasks[1].url)
    /\ \E i \in DOMAIN tstate : tstate[i] \in {"fetching", "writing"}

(***************************************************************************)
(* C26  Download workers share no mutable state: in one download phase no  *)
(* two workers that run at the same time write to the same local file      *)
(* path, whatever the URLs to fetch are (distinct URLs with equal derived  *)
(* file names, a URL that is both a profile picture and a review image).   *)
(***************************************************************************)
C26_NoSharedFile ==
    \A i, j \in DOMAIN tstate :
        (i # j /\ tstate[i] = "writing" /\ tstate[j] = "writing") =>
            TargetPath(tasks[i]) # TargetPath(tasks[j])

(***************************************************************************)
(* Claims about the end of the streaming loop                              *)
(***************************************************************************)
\* the streaming loop has ended and the run is at, or past, finalize
LoopEnded == spc \in {"done", "saved", "finished", "failed"}

(***************************************************************************)
(* C27  The streaming loop always terminates: whatever the source does     *)
(* (empty batches, batches without new identities, stale elements, a stale *)
(* pane that is found again, other errors), with finitely many identities  *)
(* to yield, the loop eventually ends and the run reaches finalize.        *)
(***************************************************************************)
C27_LoopTerminates == <>LoopEnded

(***************************************************************************)
(* Claims about the custom parameters                                      *)
(***************************************************************************)
\* the identity and the fields merge_review manages
ManagedFields ==
    {"review_id", "author", "rating", "likes", "description", "user_images",
     "profile_picture", "owner_responses"} \cup date_fields

(***************************************************************************)
(* C28  Custom parameters do not overwrite record data: whatever the       *)
(* custom_params map is, in the saved file every record keeps, for each    *)
(* key of custom_params that is its identity or a merge-managed field it   *)
(* holds, the value it had before the save; custom keys are only added.    *)
(***************************************************************************)
C28_CustomParamsAddOnly ==
    json_file.exists =>
        \A i \in DOMAIN json_file.data :
        \A id \in DOMAIN jdocs_in :
            Get(json_file.data[i], "review_id", "") = Get(jdocs_in[id], "review_id", "") =>
                \A k \in (DOMAIN jcfg.custom_params \cap ManagedFields)
                              \cap DOMAIN jdocs_in[id] :
                    json_file.data[i][k] = jdocs_in[id][k]

(***************************************************************************)
(* Claims about the SeenSet and the record map                             *)
(***************************************************************************)
\* the SeenSet bootstrap loaded
BootSeen == UNION {st.seen : st \in SessionStores}

\* the identities added to the SeenSet during the run
AddedToSeen == seen \ BootSeen

\* between two batches, or with the loop over and the record map about to
\* be handed to the persistence step
AtBoundary == spc \in {"loop", "done"}

(***************************************************************************)
(* C29  SeenSet and record map stay consistent: at every batch boundary of *)
(* a run and at finalize, every identity added to the SeenSet during the   *)
(* run has a record in the record map, under a key equal to the record's   *)
(* review_id.                                                              *)
(***************************************************************************)
C29_SeenHasRecord ==
    AtBoundary =>
        \A id \in AddedToSeen :
            /\ Has(docs, id)
            /\ Has(docs[id], "review_id")
            /\ docs[id]["review_id"] = id

\* a run that merged r3 and r4 and added them to the SeenSet has left the
\* loop
C29_Witness ==
    /\ spc = "done"
    /\ {"r3", "r4"} \subseteq AddedToSeen
    /\ DOMAIN merge_count = {"r3", "r4"}

(***************************************************************************)
(* C30  A cached file is a completed download: when a pass has returned, a *)
(* file exists at the derived local path of a URL only if a fetch of that  *)
(* URL completed and stored it, and the file is whole; a fetch that failed *)
(* (also after part of the body was written) has left no file, so that a   *)
(* later pass fetches the URL again.                                       *)
(***************************************************************************)
C30_CachedIsComplete ==
    epc = "returned" =>
        \A i \in DOMAIN tasks :
            Exists(files, TargetPath(tasks[i])) =>
                /\ \E p \in 1..passes : StoredIn(p, tasks[i])
                /\ [path |-> TargetPath(tasks[i]), whole |-> TRUE] \in files

====
